---- MODULE Spec2Model ----
(***************************************************************************)
(* A model of the transcriptionist package: the weighted Wagner-Fischer    *)
(* edit-distance engine (levenshtein.py) running over Matrix /             *)
(* MatrixPointer (matrices.py), and the schema compiler (schemata.py).     *)
(***************************************************************************)
EXTENDS Integers, Sequences, FiniteSets, TLC

VARIABLES
    ld,       \* the Levenshtein object: its fields as a record
    ret,      \* what the caller's last step() returned (TRUE before any call)
    raised,   \* TRUE iff the last call ended in calculate()'s ValueError
    tri,      \* three levdist() calls over sequences a, b, c and their results
    schema,   \* a TargetSchema: its rows (row 1 the base, the rest alternants)
    comp,     \* the result of TargetSchema.compile(), a set; {} before the call
    data,     \* a TargetCompilation: its list of TargetSequences
    lookup,   \* the outcome of the last find / locate / count / in on data
    matrix,   \* a Matrix: its dimensions, default value and cells
    pointer,  \* a MatrixPointer bound to matrix: <<r, c>>
    iter,     \* a MatrixIterator over matrix
    result    \* the outcome of the last Matrix / MatrixPointer call

levVars == <<ld, ret, raised>>
schVars == <<schema, comp>>
tcVars == <<data, lookup>>
matVars == <<matrix, pointer, iter, result>>
vars == <<levVars, tri, schVars, tcVars, matVars>>

(***************************************************************************)
(* Bounds of the model.                                                    *)
(***************************************************************************)
MaxLen == 2      \* longest source / target sequence
MaxCost == 2     \* largest insert / delete / substitute cost
MaxAlts == 2     \* largest number of alternant rows of a schema
MaxCols == 2     \* largest schema length
MaxItems == 3    \* longest TargetCompilation built from a list
MaxDim == 3      \* most rows / columns of the Matrix a MatrixPointer walks
MaxGrid == 2     \* most rows / columns of a Matrix whose cells are written
MaxShape == 2    \* most rows / columns of a Matrix that is shaped and labelled

Symbols == {"a", "b"}

SeqsUpTo(S, n) == UNION {[1..k -> S] : k \in 0..n}

Costs == 0..MaxCost

(***************************************************************************)
(* constants.py: EditOperation.  A Matrix cell that was never assigned     *)
(* holds the default_value 0 the engine's matrices are built with, which   *)
(* is no EditOperation and no MatrixPointer.                               *)
(***************************************************************************)
NONE == "NONE"
INSERT == "INSERT"
DELETE == "DELETE"
SUBSTITUTE == "SUBSTITUTE"
TRANSPOSE == "TRANSPOSE"
EditOperation == {NONE, INSERT, DELETE, SUBSTITUTE, TRANSPOSE}

DefaultEdit == "0"       \* default_value = 0 in ematrix
DefaultPointer == <<>>   \* default_value = 0 in pmatrix

(***************************************************************************)
(* matrices.py: Matrix element access and MatrixPointer movement.          *)
(* A matrix is a function from <<row, col>> to its cell values.            *)
(***************************************************************************)
Cells(n_rows, n_cols) == (0..(n_rows - 1)) \X (0..(n_cols - 1))

Matrix(n_rows, n_cols, default_value) ==
    [cell \in Cells(n_rows, n_cols) |-> default_value]

wrap_row(n_rows, row) == IF row < 0 THEN n_rows + row ELSE row

wrap_col(n_cols, col) == IF col < 0 THEN n_cols + col ELSE col

\* m[ptr]: getitem(ptr.r, ptr.c), with the wrap-around of negative indices
getitem(m, n_rows, n_cols, p) ==
    m[<<wrap_row(n_rows, p[1]), wrap_col(n_cols, p[2])>>]

\* m[ptr] = value
setitem(m, n_rows, n_cols, p, value) ==
    [m EXCEPT ![<<wrap_row(n_rows, p[1]), wrap_col(n_cols, p[2])>>] = value]

\* MatrixPointer.advance: c += 1, or on ValueError r += 1 and c = 0, or False
advance_keeps_column(p, n_rows, n_cols) ==
    IF p[2] + 1 < n_cols THEN [ok |-> TRUE, ptr |-> <<p[1], p[2] + 1>>]
    ELSE IF p[1] + 1 < n_rows THEN [ok |-> TRUE, ptr |-> <<p[1] + 1, p[2]>>]
    ELSE [ok |-> FALSE, ptr |-> p]
advance(p, n_rows, n_cols) ==
    IF p[2] + 1 < n_cols THEN [ok |-> TRUE, ptr |-> <<p[1], p[2] + 1>>]
    ELSE IF p[1] + 1 < n_rows THEN [ok |-> TRUE, ptr |-> <<p[1] + 1, 0>>]
    ELSE [ok |-> FALSE, ptr |-> p]

\* cleft / cup / cupleft of a pointer the engine holds with c > 0 / r > 0:
\* the copy moved by one cell
cleft(p) == <<p[1], p[2] - 1>>

cup(p) == <<p[1] - 1, p[2]>>

cupleft_row_only(p) == <<p[1] - 1, p[2]>>
cupleft(p) == <<p[1] - 1, p[2] - 1>>

(***************************************************************************)
(* levenshtein.py: the Levenshtein object.                                 *)
(***************************************************************************)
n_rows(e) == Len(e.source) + 1

n_cols(e) == Len(e.target) + 1

\* initialise_matrix: row_labels = [''] + list(source), likewise col_labels
row_labels(e) == <<"">> \o e.source

col_labels(e) == <<"">> \o e.target

initialise_matrix(source, target, default_value) ==
    Matrix(Len(source) + 1, Len(target) + 1, default_value)

\* Levenshtein.__init__
Levenshtein(source, target, insert_cost, delete_cost, substitute_cost) ==
    [source          |-> source,
     target          |-> target,
     insert_cost     |-> insert_cost,
     delete_cost     |-> delete_cost,
     substitute_cost |-> substitute_cost,
     dmatrix         |-> initialise_matrix(source, target, 0),
     pmatrix         |-> initialise_matrix(source, target, DefaultPointer),
     ematrix         |-> initialise_matrix(source, target, DefaultEdit),
     ptr             |-> <<0, 0>>,
     computed        |-> FALSE]

dcell(e, p) == getitem(e.dmatrix, n_rows(e), n_cols(e), p)

\* matrix_assign: the parallel assignment at ptr in the three matrices
matrix_assign(e, dvalue, pvalue, evalue) ==
    [e EXCEPT !.dmatrix = setitem(e.dmatrix, n_rows(e), n_cols(e), e.ptr, dvalue),
              !.pmatrix = setitem(e.pmatrix, n_rows(e), n_cols(e), e.ptr, pvalue),
              !.ematrix = setitem(e.ematrix, n_rows(e), n_cols(e), e.ptr, evalue)]

\* calculate, first row (ptr.r == 0): the cost added to the left neighbour
FirstRowCostWrong(e) == e.delete_cost
FirstRowCost(e) == e.insert_cost

\* calculate, first column (ptr.c == 0): the cost added to the upper neighbour
FirstColCostWrong(e) == e.substitute_cost
FirstColCost(e) == e.delete_cost

\* calculate: substituting like for like is free
LikeForLike(e) == row_labels(e)[e.ptr[1] + 1] = col_labels(e)[e.ptr[2] + 1]

SubstituteCostNeverFree(e) == e.substitute_cost
SubstituteCost(e) == IF LikeForLike(e) THEN 0 ELSE e.substitute_cost

substitute_edop(e) == IF LikeForLike(e) THEN NONE ELSE SUBSTITUTE

\* calculate: the three-way selection, in the order of the code's tests;
\* "RAISE" is the final ValueError
SelectDeletionOnTie(insertion, deletion, substitution) ==
    IF insertion < deletion /\ insertion < substitution THEN INSERT
    ELSE IF deletion < insertion /\ deletion < substitution THEN DELETE
    ELSE IF substitution <= insertion /\ substitution <= deletion THEN SUBSTITUTE
    ELSE DELETE
SelectInsertionOnTie(insertion, deletion, substitution) ==
    IF insertion <= deletion /\ insertion <= substitution THEN INSERT
    ELSE IF deletion < insertion /\ deletion < substitution THEN DELETE
    ELSE IF substitution <= insertion /\ substitution <= deletion THEN SUBSTITUTE
    ELSE "RAISE"
Select(insertion, deletion, substitution) ==
    IF insertion < deletion /\ insertion < substitution THEN INSERT
    ELSE IF deletion < insertion /\ deletion < substitution THEN DELETE
    ELSE IF substitution <= insertion /\ substitution <= deletion THEN SUBSTITUTE
    ELSE "RAISE"

\* calculate: the engine after the call, and whether the call raised
calculate(e) ==
    IF e.ptr = <<0, 0>> THEN
        [raised |-> FALSE, e |-> matrix_assign(e, 0, e.ptr, NONE)]
    ELSE IF e.ptr[1] = 0 THEN
        [raised |-> FALSE,
         e |-> matrix_assign(e, dcell(e, cleft(e.ptr)) + FirstRowCost(e),
                             cleft(e.ptr), INSERT)]
    ELSE IF e.ptr[2] = 0 THEN
        [raised |-> FALSE,
         e |-> matrix_assign(e, dcell(e, cup(e.ptr)) + FirstColCost(e),
                             cup(e.ptr), DELETE)]
    ELSE
        LET insertion == dcell(e, cleft(e.ptr)) + e.insert_cost
            deletion == dcell(e, cup(e.ptr)) + e.delete_cost
            substitution == dcell(e, cupleft(e.ptr)) + SubstituteCost(e)
            sel == Select(insertion, deletion, substitution)
        IN  IF sel = INSERT THEN
                [raised |-> FALSE,
                 e |-> matrix_assign(e, insertion, cleft(e.ptr), INSERT)]
            ELSE IF sel = DELETE THEN
                [raised |-> FALSE,
                 e |-> matrix_assign(e, deletion, cup(e.ptr), DELETE)]
            ELSE IF sel = SUBSTITUTE THEN
                [raised |-> FALSE,
                 e |-> matrix_assign(e, substitution, cupleft(e.ptr),
                                     substitute_edop(e))]
            ELSE [raised |-> TRUE, e |-> e]

\* step: calculate, then advance; the computed flag is set when advance fails
step_wraps_around(e) ==
    LET c == calculate(e)
        a == advance(c.e.ptr, n_rows(e), n_cols(e))
    IN  IF c.raised THEN [raised |-> TRUE, ret |-> FALSE, e |-> e]
        ELSE IF ~a.ok THEN
            [raised |-> FALSE, ret |-> FALSE,
             e |-> [c.e EXCEPT !.computed = TRUE, !.ptr = <<0, 0>>]]
        ELSE [raised |-> FALSE, ret |-> TRUE, e |-> [c.e EXCEPT !.ptr = a.ptr]]
step(e) ==
    LET c == calculate(e)
        a == advance(c.e.ptr, n_rows(e), n_cols(e))
    IN  IF c.raised THEN [raised |-> TRUE, ret |-> FALSE, e |-> e]
        ELSE IF ~a.ok THEN
            [raised |-> FALSE, ret |-> FALSE, e |-> [c.e EXCEPT !.computed = TRUE]]
        ELSE [raised |-> FALSE, ret |-> TRUE, e |-> [c.e EXCEPT !.ptr = a.ptr]]

\* compute: while self.step(): pass; then computed = True
RECURSIVE compute(_)
compute(e) ==
    LET s == step(e)
    IN  IF s.raised THEN [raised |-> TRUE, e |-> s.e]
        ELSE IF s.ret THEN compute(s.e)
        ELSE [raised |-> FALSE, e |-> [s.e EXCEPT !.computed = TRUE]]

\* the distance property: None (here -1) unless computed
NoDistance == -1

distance(e) ==
    IF e.computed THEN e.dmatrix[<<n_rows(e) - 1, n_cols(e) - 1>>] ELSE NoDistance

\* levdist: build, compute, read distance; a ValueError of compute propagates
levdist(source, target, insert_cost, delete_cost, substitute_cost) ==
    LET c == compute(Levenshtein(source, target, insert_cost, delete_cost,
                                 substitute_cost))
    IN  [raised |-> c.raised, value |-> distance(c.e)]

\* esequence: walk the backlinks from (m,n), prepending the tag of each cell,
\* until the walk stands on (0,0)
RECURSIVE esequence_from(_, _, _)
esequence_from(e, cur, edits) ==
    LET next == e.pmatrix[cur]
        acc == <<e.ematrix[cur]>> \o edits
    IN  IF next = <<0, 0>> THEN acc ELSE esequence_from(e, next, acc)

esequence(e) == esequence_from(e, <<n_rows(e) - 1, n_cols(e) - 1>>, <<>>)

(***************************************************************************)
(* schemata.py: TargetSegment, TargetSequence and the schema compiler.     *)
(* A segment is a record [target, score]; None is the absent target.       *)
(***************************************************************************)
None == "None"

TargetSegment(target, score) == [target |-> target, score |-> score]

RECURSIVE SumScores(_)
SumScores(segs) ==
    IF segs = <<>> THEN 0 ELSE Head(segs).score + SumScores(Tail(segs))

\* TargetSequence.from_segments: the targets in order and the summed score
from_segments_first_only(segs) ==
    [sequence |-> [j \in 1..Len(segs) |-> segs[j].target],
     score    |-> IF segs = <<>> THEN 0 ELSE Head(segs).score]
from_segments(segs) ==
    [sequence |-> [j \in 1..Len(segs) |-> segs[j].target],
     score    |-> SumScores(segs)]

\* __compile, the inner loop over j: the form an alternant makes of a base
overlay(base, alt) ==
    [j \in 1..Len(base) |->
        IF alt[j].target # None THEN TargetSegment(alt[j].target, alt[j].score)
        ELSE IF base[j].target # None
             THEN TargetSegment(base[j].target, base[j].score)
        ELSE TargetSegment(None, 0)]

\* new_alts = alts.copy(); new_alts.pop(i)
pop(alts, i) == [k \in 1..(Len(alts) - 1) |-> IF k < i THEN alts[k] ELSE alts[k + 1]]

\* __compile: the set comp
no_recursion(base, alts) ==
    {from_segments(base)}
        \cup {from_segments(overlay(base, alts[i])) : i \in 1..Len(alts)}
RECURSIVE compile_rec(_, _)
compile_rec(base, alts) ==
    {from_segments(base)}
        \cup UNION {
            LET form == overlay(base, alts[i])
                new_alts == pop(alts, i)
            IN  {from_segments(form)}
                    \cup (IF Len(new_alts) > 0 THEN compile_rec(form, new_alts)
                          ELSE {})
            : i \in 1..Len(alts)}

\* TargetSequence.__eq__ (and __hash__): by sequence and score
eq_never(x, y) == FALSE
TargetSequence_eq(x, y) == x.sequence = y.sequence /\ x.score = y.score

\* __compile with comp spelled out as Python keeps it: a set holds an element
\* once per __eq__ class; here the elements are listed in insertion order
set_add(forms, x) ==
    IF \E k \in 1..Len(forms) : TargetSequence_eq(forms[k], x) THEN forms
    ELSE Append(forms, x)

\* comp.update(subcomp): add, one after the other, the elements of subcomp;
\* the ones that get in are those equal to no element of forms and to no
\* earlier element of subcomp
Added(forms, subcomp) ==
    {n \in 1..Len(subcomp) :
        /\ \A k \in 1..Len(forms) : ~TargetSequence_eq(forms[k], subcomp[n])
        /\ \A k \in 1..(n - 1) : ~TargetSequence_eq(subcomp[k], subcomp[n])}

set_update(forms, subcomp) ==
    forms \o [k \in 1..Cardinality(Added(forms, subcomp)) |->
                subcomp[CHOOSE n \in Added(forms, subcomp) :
                    Cardinality({i \in Added(forms, subcomp) : i <= n}) = k]]

RECURSIVE compile_list(_, _)

\* one pass of the loop over i: the form, then the forms of the recursive call
compile_pass_no_recursion(form, new_alts) == <<from_segments(form)>>
compile_pass(form, new_alts) ==
    <<from_segments(form)>>
        \o (IF Len(new_alts) > 0 THEN compile_list(form, new_alts) ELSE <<>>)

RECURSIVE compile_loop(_, _, _, _)
compile_loop(base, alts, i, forms) ==
    IF i > Len(alts) THEN forms
    ELSE compile_loop(base, alts, i + 1,
             set_update(forms, compile_pass(overlay(base, alts[i]), pop(alts, i))))

compile_list(base, alts) ==
    compile_loop(base, alts, 1, set_add(<<>>, from_segments(base)))

\* TargetCompilation.__init__: every x of the iterable is appended to data
TargetCompilation(xs) == [k \in 1..Len(xs) |-> xs[k]]

\* TargetSequence.flatten: "".join(sequence), None if a target is no string
RECURSIVE join(_)
join(sequence) ==
    IF sequence = <<>> THEN "" ELSE Head(sequence) \o join(Tail(sequence))

flatten(sequence) ==
    IF \E j \in 1..Len(sequence) : sequence[j] = None THEN None
    ELSE join(sequence)

\* the three kinds of key of find / locate / count / in
StrKey(x) == [kind |-> "str", x |-> x]
SequenceKey(x) == [kind |-> "Sequence", x |-> x]
TargetSequenceKey(x) == [kind |-> "TargetSequence", x |-> x]

\* the test the lookups make on one stored item, by the type of the key
matches(item, key) ==
    IF key.kind = "TargetSequence" THEN TargetSequence_eq(item, key.x)
    ELSE IF key.kind = "str" THEN flatten(item.sequence) = key.x
    ELSE item.sequence = key.x

Hits(items, key) == {i \in 1..Len(items) : matches(items[i], key)}

\* TargetCompilation.locate: the index (from 0) of the first match, or ValueError
locate_last(items, key) ==
    IF Hits(items, key) = {} THEN [raised |-> TRUE]
    ELSE [raised |-> FALSE,
          value |-> (CHOOSE i \in Hits(items, key) :
                        \A k \in Hits(items, key) : i >= k) - 1]
locate(items, key) ==
    IF Hits(items, key) = {} THEN [raised |-> TRUE]
    ELSE [raised |-> FALSE,
          value |-> (CHOOSE i \in Hits(items, key) :
                        \A k \in Hits(items, key) : i <= k) - 1]

\* TargetCompilation.find: data[locate(x)]
find(items, key) ==
    IF locate(items, key).raised THEN [raised |-> TRUE]
    ELSE [raised |-> FALSE, value |-> items[locate(items, key).value + 1]]

\* TargetCompilation.count
count(items, key) == Cardinality(Hits(items, key))

\* TargetCompilation.__contains__
contains(items, key) == \E i \in 1..Len(items) : matches(items[i], key)

getbase(sch) == sch[1]

getalternants(sch) == Tail(sch)

\* compile: the TargetCompilation holds the members of the set __compile returns
compile(sch) == compile_rec(getbase(sch), getalternants(sch))

(***************************************************************************)
(* constants.py: Direction, a Flag; members are combined with |, which on  *)
(* members that share no bit is their sum.                                 *)
(***************************************************************************)
NoDirection == 0
NORTH == 1
EAST == 2
SOUTH == 4
WEST == 8
NORTHEAST == NORTH + EAST
SOUTHEAST == SOUTH + EAST
SOUTHWEST == SOUTH + WEST
NORTHWEST == NORTH + WEST
Direction ==
    {NoDirection, NORTH, EAST, SOUTH, WEST, NORTHEAST, SOUTHEAST, SOUTHWEST, NORTHWEST}

(***************************************************************************)
(* matrices.py: MatrixPointer.  A pointer is <<r, c>>; a call that can     *)
(* fail gives a record with the pointer as the call leaves it.             *)
(***************************************************************************)
\* the setter of r: only a value at or above n_rows raises ValueError
set_r(p, mx, r) ==
    IF r >= mx.n_rows THEN [raised |-> TRUE, ptr |-> p]
    ELSE [raised |-> FALSE, ptr |-> <<r, p[2]>>]

\* the setter of c
set_c(p, mx, c) ==
    IF c >= mx.n_cols THEN [raised |-> TRUE, ptr |-> p]
    ELSE [raised |-> FALSE, ptr |-> <<p[1], c>>]

\* MatrixPointer.__init__: self.r = r, then self.c = c
MatrixPointer(mx, r, c) ==
    IF set_r(<<0, 0>>, mx, r).raised THEN [raised |-> TRUE]
    ELSE set_c(set_r(<<0, 0>>, mx, r).ptr, mx, c)

\* MatrixPointer.__setitem__: key 0 is r, key 1 is c, any other key IndexError
pointer_setitem(p, mx, key, value) ==
    IF key = 0 THEN set_r(p, mx, value)
    ELSE IF key = 1 THEN set_c(p, mx, value)
    ELSE [raised |-> TRUE, ptr |-> p]

\* MatrixPointer.copy
copy(p) == <<p[1], p[2]>>

mleft(p, mx) ==
    IF set_c(p, mx, p[2] - 1).raised THEN [ok |-> FALSE, ptr |-> p]
    ELSE [ok |-> TRUE, ptr |-> set_c(p, mx, p[2] - 1).ptr]

mright(p, mx) ==
    IF set_c(p, mx, p[2] + 1).raised THEN [ok |-> FALSE, ptr |-> p]
    ELSE [ok |-> TRUE, ptr |-> set_c(p, mx, p[2] + 1).ptr]

mup(p, mx) ==
    IF set_r(p, mx, p[1] - 1).raised THEN [ok |-> FALSE, ptr |-> p]
    ELSE [ok |-> TRUE, ptr |-> set_r(p, mx, p[1] - 1).ptr]

mdown(p, mx) ==
    IF set_r(p, mx, p[1] + 1).raised THEN [ok |-> FALSE, ptr |-> p]
    ELSE [ok |-> TRUE, ptr |-> set_r(p, mx, p[1] + 1).ptr]

\* the try block of a diagonal move: self.r = r, then self.c = c; a
\* ValueError of the second leaves r assigned until the except block runs
try_both(p, mx, r, c) ==
    IF set_r(p, mx, r).raised THEN [raised |-> TRUE, ptr |-> p]
    ELSE set_c(set_r(p, mx, r).ptr, mx, c)

\* the except block: self.r = reset[0]; self.c = reset[1]
reset_to(tried, reset) ==
    IF tried.raised THEN [ok |-> FALSE, ptr |-> reset]
    ELSE [ok |-> TRUE, ptr |-> tried.ptr]

mupleft(p, mx) ==
    IF (p[1] - 1) < 0 \/ (p[2] - 1) < 0 THEN [ok |-> FALSE, ptr |-> p]
    ELSE reset_to(try_both(p, mx, p[1] - 1, p[2] - 1), p)

mupright(p, mx) ==
    IF (p[1] - 1) < 0 \/ (p[2] + 1) >= mx.n_cols THEN [ok |-> FALSE, ptr |-> p]
    ELSE reset_to(try_both(p, mx, p[1] - 1, p[2] + 1), p)

mdownleft(p, mx) ==
    IF (p[1] + 1) >= mx.n_rows \/ (p[2] - 1) < 0 THEN [ok |-> FALSE, ptr |-> p]
    ELSE reset_to(try_both(p, mx, p[1] + 1, p[2] - 1), p)

mdownright_half_applied(p, mx) ==
    [ok |-> ~try_both(p, mx, p[1] + 1, p[2] + 1).raised,
     ptr |-> try_both(p, mx, p[1] + 1, p[2] + 1).ptr]
mdownright(p, mx) ==
    IF (p[1] + 1) >= mx.n_rows \/ (p[2] + 1) >= mx.n_cols THEN [ok |-> FALSE, ptr |-> p]
    ELSE reset_to(try_both(p, mx, p[1] + 1, p[2] + 1), p)

\* c = self.copy(); return c if c.m...() else False
returned(moved) ==
    IF moved.ok THEN [ok |-> TRUE, copy |-> moved.ptr] ELSE [ok |-> FALSE]

directionto_rows_only(self, other) ==
    IF other[1] < self[1] THEN NORTH
    ELSE IF other[1] > self[1] THEN SOUTH ELSE NoDirection
directionto(self, other) ==
    (IF other[2] < self[2] THEN WEST
     ELSE IF other[2] > self[2] THEN EAST ELSE NoDirection)
        + (IF other[1] < self[1] THEN NORTH
           ELSE IF other[1] > self[1] THEN SOUTH ELSE NoDirection)

directionfrom(self, other) == directionto(other, self)

(***************************************************************************)
(* matrices.py: Matrix as an object (dimensions, default value, cells),    *)
(* element access with its range check, and MatrixIterator.                *)
(***************************************************************************)
validate_row_index(mx, row) == row \in 0..(mx.n_rows - 1)

validate_col_index(mx, col) == col \in 0..(mx.n_cols - 1)

\* Matrix.getitem(row, col), also m[row, col]: IndexError, or the value
Matrix_getitem_no_wrap(mx, row, col) ==
    IF ~validate_row_index(mx, row) \/ ~validate_col_index(mx, col)
    THEN [raised |-> TRUE]
    ELSE [raised |-> FALSE, value |-> mx.cells[<<row, col>>]]
Matrix_getitem(mx, row, col) ==
    IF ~validate_row_index(mx, wrap_row(mx.n_rows, row))
        \/ ~validate_col_index(mx, wrap_col(mx.n_cols, col))
    THEN [raised |-> TRUE]
    ELSE [raised |-> FALSE,
          value |-> mx.cells[<<wrap_row(mx.n_rows, row), wrap_col(mx.n_cols, col)>>]]

\* Matrix.setitem(row, col, value), also m[row, col] = value
Matrix_setitem(mx, row, col, value) ==
    IF ~validate_row_index(mx, wrap_row(mx.n_rows, row))
        \/ ~validate_col_index(mx, wrap_col(mx.n_cols, col))
    THEN [raised |-> TRUE, m |-> mx]
    ELSE [raised |-> FALSE,
          m |-> [mx EXCEPT !.cells[<<wrap_row(mx.n_rows, row),
                                     wrap_col(mx.n_cols, col)>>] = value]]

\* an optional sequence of values: Nothing is the argument values=None
Nothing == [given |-> FALSE]

Some(values) == [given |-> TRUE, values |-> values]

\* list.insert(i, x) on a list of n items: the index x is found at afterwards
list_insert_always_appends(n, i) == n
list_insert_index(n, i) ==
    IF i < 0
    THEN (IF n + i < 0 THEN 0 ELSE n + i)
    ELSE (IF i > n THEN n ELSE i)

\* Matrix.insert_row(row, values): ValueError, or the matrix with the new row
insert_row(mx, row, values) ==
    IF values.given /\ Len(values.values) # mx.n_cols
    THEN [raised |-> TRUE, m |-> mx]
    ELSE [raised |-> FALSE,
          m |-> [mx EXCEPT
                    !.n_rows = @ + 1,
                    !.cells = [cell \in Cells(mx.n_rows + 1, mx.n_cols) |->
                        IF cell[1] < list_insert_index(mx.n_rows, row)
                        THEN mx.cells[cell]
                        ELSE IF cell[1] > list_insert_index(mx.n_rows, row)
                        THEN mx.cells[<<cell[1] - 1, cell[2]>>]
                        ELSE IF values.given
                        THEN values.values[cell[2] + 1]
                        ELSE mx.default_value]]]

\* Matrix.append_row(values)
append_row(mx, values) == insert_row(mx, mx.n_rows, values)

\* Matrix.insert_col(col, values): ValueError, or the matrix with the new column
insert_col(mx, col, values) ==
    IF values.given /\ Len(values.values) # mx.n_rows
    THEN [raised |-> TRUE, m |-> mx]
    ELSE [raised |-> FALSE,
          m |-> [mx EXCEPT
                    !.n_cols = @ + 1,
                    !.cells = [cell \in Cells(mx.n_rows, mx.n_cols + 1) |->
                        IF cell[2] < list_insert_index(mx.n_cols, col)
                        THEN mx.cells[cell]
                        ELSE IF cell[2] > list_insert_index(mx.n_cols, col)
                        THEN mx.cells[<<cell[1], cell[2] - 1>>]
                        ELSE IF values.given
                        THEN values.values[cell[1] + 1]
                        ELSE mx.default_value]]]

\* Matrix.append_col(values)
append_col(mx, values) == insert_col(mx, mx.n_cols, values)

\* MatrixIterator.__init__; items lists what next() has returned so far
MatrixIterator(mx, enumeration) ==
    [started |-> TRUE, ptr |-> MatrixPointer(mx, 0, 0).ptr, enumeration |-> enumeration,
     end |-> FALSE, items |-> <<>>, stopped |-> FALSE]

\* MatrixIterator.__next__
next(it, mx) ==
    IF it.end THEN [it EXCEPT !.stopped = TRUE]
    ELSE [it EXCEPT
            !.ptr = advance(it.ptr, mx.n_rows, mx.n_cols).ptr,
            !.end = ~advance(it.ptr, mx.n_rows, mx.n_cols).ok,
            !.items = Append(it.items,
                IF it.enumeration
                THEN [ptr |-> copy(it.ptr),
                      value |-> Matrix_getitem(mx, it.ptr[1], it.ptr[2]).value]
                ELSE [value |-> Matrix_getitem(mx, it.ptr[1], it.ptr[2]).value])]

(***************************************************************************)
(* The engine as a state machine: a Levenshtein object is built from       *)
(* bounded inputs, then step() and compute() are called in any order.      *)
(***************************************************************************)
TriIdle == [called |-> FALSE]

NoLookup == [op |-> "none"]
IdleCompilation ==
    /\ data = <<>>
    /\ lookup = NoLookup

NoMatrix == [n_rows |-> 1, n_cols |-> 1, default_value |-> None,
             cells |-> Matrix(1, 1, None)]
NoIter == [started |-> FALSE]
NoResult == [op |-> "none"]
IdleMatrix ==
    /\ matrix = NoMatrix
    /\ pointer = <<0, 0>>
    /\ iter = NoIter
    /\ result = NoResult

InitLev ==
    /\ \E source \in SeqsUpTo(Symbols, MaxLen), target \in SeqsUpTo(Symbols, MaxLen),
          insert_cost \in Costs, delete_cost \in Costs, substitute_cost \in Costs :
            ld = Levenshtein(source, target, insert_cost, delete_cost, substitute_cost)
    /\ ret = TRUE
    /\ raised = FALSE
    /\ tri = TriIdle
    /\ schema = <<>>
    /\ comp = {}
    /\ IdleCompilation
    /\ IdleMatrix

\* ld.step()
Step ==
    LET s == step(ld)
    IN  /\ ld' = s.e
        /\ ret' = IF s.raised THEN ret ELSE s.ret
        /\ raised' = s.raised
        /\ UNCHANGED <<tri, schema, comp, tcVars, matVars>>

\* ld.compute()
Compute ==
    LET c == compute(ld)
    IN  /\ ld' = c.e
        /\ raised' = c.raised
        /\ UNCHANGED <<ret, tri, schema, comp, tcVars, matVars>>

NextLev == Step \/ Compute

Spec == InitLev /\ [][NextLev]_vars

(***************************************************************************)
(* The engine on the pairs of test_levenshtein_unweighted, default costs.  *)
(***************************************************************************)
Unweighted ==
    { [s |-> <<"s","i","t","t","e","n">>, t |-> <<"k","i","t","t","e","n">>, dist |-> 1],
      [s |-> <<"s","i","t","t","e","n">>, t |-> <<"k","i","t","t","e","n","s">>, dist |-> 2],
      [s |-> <<"s","i","t","t","i","n","g">>, t |-> <<"k","i","t","t","e","n">>, dist |-> 3],
      [s |-> <<"S","a","t","u","r","d","a","y">>, t |-> <<"S","u","n","d","a","y">>, dist |-> 3],
      [s |-> <<>>, t |-> <<>>, dist |-> 0],
      [s |-> <<"a","b","c","d","e","f","g">>, t |-> <<"a","b","c","d","e","f","g">>, dist |-> 0],
      [s |-> <<"a","b","c","d","e","f","g">>, t |-> <<>>, dist |-> 7],
      [s |-> <<"a","b","c">>, t |-> <<"x","y","z">>, dist |-> 3],
      [s |-> <<"A","B","x","C">>, t |-> <<"A","B","C">>, dist |-> 1],
      [s |-> <<"a","b","c">>, t |-> <<"a","b","X","c">>, dist |-> 1] }

InitTest ==
    /\ \E u \in Unweighted : ld = Levenshtein(u.s, u.t, 1, 1, 1)
    /\ ret = TRUE
    /\ raised = FALSE
    /\ tri = TriIdle
    /\ schema = <<>>
    /\ comp = {}
    /\ IdleCompilation
    /\ IdleMatrix

SpecTest == InitTest /\ [][NextLev]_vars

(***************************************************************************)
(* Three levdist() calls with one cost triple: (a,b), (b,c) and (a,c).     *)
(***************************************************************************)
InitTri ==
    /\ \E a \in SeqsUpTo(Symbols, MaxLen), b \in SeqsUpTo(Symbols, MaxLen),
          c \in SeqsUpTo(Symbols, MaxLen),
          insert_cost \in Costs, delete_cost \in Costs, substitute_cost \in Costs :
            tri = [called |-> FALSE, a |-> a, b |-> b, c |-> c,
                   insert_cost |-> insert_cost, delete_cost |-> delete_cost,
                   substitute_cost |-> substitute_cost]
    /\ ld = Levenshtein(<<>>, <<>>, 1, 1, 1)
    /\ ret = TRUE
    /\ raised = FALSE
    /\ schema = <<>>
    /\ comp = {}
    /\ IdleCompilation
    /\ IdleMatrix

LevDistCalls ==
    /\ tri' = [called |-> TRUE, a |-> tri.a, b |-> tri.b, c |-> tri.c,
               insert_cost |-> tri.insert_cost, delete_cost |-> tri.delete_cost,
               substitute_cost |-> tri.substitute_cost,
               ab |-> levdist(tri.a, tri.b, tri.insert_cost, tri.delete_cost,
                              tri.substitute_cost),
               bc |-> levdist(tri.b, tri.c, tri.insert_cost, tri.delete_cost,
                              tri.substitute_cost),
               ac |-> levdist(tri.a, tri.c, tri.insert_cost, tri.delete_cost,
                              tri.substitute_cost)]
    /\ UNCHANGED <<ld, ret, raised, schema, comp, tcVars, matVars>>

SpecTri == InitTri /\ [][LevDistCalls]_vars

(***************************************************************************)
(* The schema compiler: a schema is authored (a base row and up to MaxAlts *)
(* alternant rows of segments), then compile() is called on it.            *)
(***************************************************************************)
BaseSegments == {TargetSegment("c", 4), TargetSegment("a", 1), TargetSegment(None, 4)}

AltSegments == {TargetSegment(None, 0), TargetSegment("a", 1), TargetSegment("b", 2)}

InitSchema ==
    /\ \E length \in 1..MaxCols, n_alternants \in 0..MaxAlts :
         \E base \in [1..length -> BaseSegments],
            alts \in [1..n_alternants -> [1..length -> AltSegments]] :
                schema = <<base>> \o alts
    /\ comp = {}
    /\ ld = Levenshtein(<<>>, <<>>, 1, 1, 1)
    /\ ret = TRUE
    /\ raised = FALSE
    /\ tri = TriIdle
    /\ IdleCompilation
    /\ IdleMatrix

\* schema.compile()
Compile ==
    /\ comp' = compile(schema)
    /\ UNCHANGED <<ld, ret, raised, tri, schema, tcVars, matVars>>

SpecSchema == InitSchema /\ [][Compile]_vars

(***************************************************************************)
(* The schema of test_schema_compilation.  Scores are counted in halves    *)
(* (1.0 is 2, 0.5 is 1).  The file spells every non-ASCII target "??"; the *)
(* expected list holds each pair (flattened form, score) that has the      *)
(* low-scored column 2 twice, once for s[6, 2] and once for s[7, 2], so    *)
(* these two targets differ in the test as it was written.  The target of  *)
(* s[7, 2] is a parameter: OtherTarget is the reading in which it differs  *)
(* from that of s[6, 2], and is spelled so in the expected list.           *)
(***************************************************************************)
OtherTarget == "?!"

Blank == TargetSegment(None, 0)

FixtureBase ==
    <<TargetSegment("??", 2), TargetSegment("a", 2),
      TargetSegment("??", 2), TargetSegment("a", 2)>>

FixtureAlternants(t72) ==
    << <<TargetSegment("x??", 2), Blank, Blank, Blank>>,
       <<TargetSegment("xw", 2), Blank, Blank, Blank>>,
       <<Blank, TargetSegment("??", 2), Blank, TargetSegment("??", 2)>>,
       <<TargetSegment("w", 1), Blank, Blank, Blank>>,
       <<TargetSegment("x", 1), Blank, Blank, Blank>>,
       <<Blank, Blank, TargetSegment("??", 1), Blank>>,
       <<Blank, Blank, TargetSegment(t72, 1), Blank>> >>

Fixture(t72) == <<FixtureBase>> \o FixtureAlternants(t72)

expected ==
    <<
       [flat |-> "wa??a", score |-> 6],
       [flat |-> "xw??????", score |-> 7],
       [flat |-> "xw???!??", score |-> 7],
       [flat |-> "x????????", score |-> 8],
       [flat |-> "w??????", score |-> 7],
       [flat |-> "xwa??a", score |-> 8],
       [flat |-> "xwa??a", score |-> 7],
       [flat |-> "xa??a", score |-> 6],
       [flat |-> "xwa?!a", score |-> 7],
       [flat |-> "x????????", score |-> 7],
       [flat |-> "w??????", score |-> 6],
       [flat |-> "wa??a", score |-> 7],
       [flat |-> "x??????", score |-> 6],
       [flat |-> "??a??a", score |-> 7],
       [flat |-> "????????", score |-> 7],
       [flat |-> "x??a??a", score |-> 7],
       [flat |-> "?????!??", score |-> 7],
       [flat |-> "x??a?!a", score |-> 7],
       [flat |-> "??a??a", score |-> 8],
       [flat |-> "x?????!??", score |-> 7],
       [flat |-> "xa?!a", score |-> 6],
       [flat |-> "xw??????", score |-> 8],
       [flat |-> "x???!??", score |-> 6],
       [flat |-> "w???!??", score |-> 6],
       [flat |-> "????????", score |-> 8],
       [flat |-> "??a?!a", score |-> 7],
       [flat |-> "xa??a", score |-> 7],
       [flat |-> "x??????", score |-> 7],
       [flat |-> "wa?!a", score |-> 6],
       [flat |-> "x??a??a", score |-> 8]
    >>

\* the rows of seq whose index is in keep, in order
RECURSIVE Keep(_, _, _)
Keep(seq, keep, i) ==
    IF i > Len(seq) THEN <<>>
    ELSE (IF i \in keep THEN <<seq[i]>> ELSE <<>>) \o Keep(seq, keep, i + 1)

\* a schema holding the base and some of the alternant rows of the fixture
InitFixture ==
    /\ \E t72 \in {"??", OtherTarget} :
         \E keep \in SUBSET (1..Len(FixtureAlternants(t72))) :
            schema = <<FixtureBase>> \o Keep(FixtureAlternants(t72), keep, 1)
    /\ comp = {}
    /\ ld = Levenshtein(<<>>, <<>>, 1, 1, 1)
    /\ ret = TRUE
    /\ raised = FALSE
    /\ tri = TriIdle
    /\ IdleCompilation
    /\ IdleMatrix

\* c = schema.compile(): the TargetCompilation is kept, its list is data
CompileToList ==
    /\ comp' = compile(schema)
    /\ data' = TargetCompilation(compile_list(getbase(schema), getalternants(schema)))
    /\ lookup' = NoLookup
    /\ UNCHANGED <<ld, ret, raised, tri, schema, matVars>>

SpecFixture == InitFixture /\ [][CompileToList]_vars

(***************************************************************************)
(* compile() on authored schemas whose alternants repeat one another and   *)
(* the base: the same sequence is reached along many orders of alternants. *)
(***************************************************************************)
RepeatedBase == {TargetSegment("a", 2), TargetSegment("c", 4)}

InitCompilation ==
    /\ \E length \in 1..MaxCols, n_alternants \in 0..MaxAlts :
         \E base \in [1..length -> RepeatedBase],
            alts \in [1..n_alternants -> [1..length -> AltSegments]] :
                schema = <<base>> \o alts
    /\ comp = {}
    /\ ld = Levenshtein(<<>>, <<>>, 1, 1, 1)
    /\ ret = TRUE
    /\ raised = FALSE
    /\ tri = TriIdle
    /\ IdleCompilation
    /\ IdleMatrix

SpecCompilation == InitCompilation /\ [][CompileToList]_vars

(***************************************************************************)
(* Lookups in a TargetCompilation built from a list of TargetSequences:    *)
(* find, locate, count and in, with a string, a tuple of targets or a      *)
(* TargetSequence as the key.                                              *)
(***************************************************************************)
LookupPool ==
    { [sequence |-> <<"a", "bc">>, score |-> 1],
      [sequence |-> <<"ab", "c">>, score |-> 1],
      [sequence |-> <<"a", "bc">>, score |-> 2],
      [sequence |-> <<"b", "c">>, score |-> 1],
      [sequence |-> <<"b", None>>, score |-> 1] }

KeyKinds == {"str", "Sequence", "TargetSequence"}

\* the key of kind kind that a caller makes of x
KeyOf(x, kind) ==
    IF kind = "str" THEN StrKey(flatten(x.sequence))
    ELSE IF kind = "Sequence" THEN SequenceKey(x.sequence)
    ELSE TargetSequenceKey(x)

\* a string key needs a flattened string
IsKey(x, kind) == kind = "str" => flatten(x.sequence) # None

InitLookup ==
    /\ \E xs \in SeqsUpTo(LookupPool, MaxItems) : data = TargetCompilation(xs)
    /\ lookup = NoLookup
    /\ schema = <<>>
    /\ comp = {}
    /\ ld = Levenshtein(<<>>, <<>>, 1, 1, 1)
    /\ ret = TRUE
    /\ raised = FALSE
    /\ tri = TriIdle
    /\ IdleMatrix

\* data.locate(x)
Locate ==
    /\ \E x \in LookupPool, kind \in KeyKinds :
         /\ IsKey(x, kind)
         /\ lookup' = [op |-> "locate", key |-> KeyOf(x, kind),
                       out |-> locate(data, KeyOf(x, kind))]
    /\ UNCHANGED <<levVars, tri, schVars, data, matVars>>

\* data.find(x)
Find ==
    /\ \E x \in LookupPool, kind \in KeyKinds :
         /\ IsKey(x, kind)
         /\ lookup' = [op |-> "find", key |-> KeyOf(x, kind),
                       out |-> find(data, KeyOf(x, kind))]
    /\ UNCHANGED <<levVars, tri, schVars, data, matVars>>

\* data.count(x)
Count ==
    /\ \E x \in LookupPool, kind \in KeyKinds :
         /\ IsKey(x, kind)
         /\ lookup' = [op |-> "count", key |-> KeyOf(x, kind),
                       out |-> count(data, KeyOf(x, kind))]
    /\ UNCHANGED <<levVars, tri, schVars, data, matVars>>

\* x in data
Contains ==
    /\ \E x \in LookupPool, kind \in KeyKinds :
         /\ IsKey(x, kind)
         /\ lookup' = [op |-> "contains", key |-> KeyOf(x, kind),
                       out |-> contains(data, KeyOf(x, kind))]
    /\ UNCHANGED <<levVars, tri, schVars, data, matVars>>

NextLookup == Locate \/ Find \/ Count \/ Contains

SpecLookup == InitLookup /\ [][NextLookup]_vars

(***************************************************************************)
(* A MatrixPointer on a Matrix of up to MaxDim rows and columns: it is     *)
(* built at (0, 0), then it is rebuilt, assigned to, moved, advanced and   *)
(* compared with other pointers in any order.                              *)
(***************************************************************************)
Lowest == 0 - MaxDim

Coords == Lowest..MaxDim

NewMatrix(rows, cols, default_value) ==
    [n_rows |-> rows, n_cols |-> cols, default_value |-> default_value,
     cells |-> Matrix(rows, cols, default_value)]

InitPointer ==
    /\ \E rows \in 1..MaxDim, cols \in 1..MaxDim : matrix = NewMatrix(rows, cols, None)
    /\ pointer = <<0, 0>>
    /\ iter = NoIter
    /\ result = NoResult
    /\ ld = Levenshtein(<<>>, <<>>, 1, 1, 1)
    /\ ret = TRUE
    /\ raised = FALSE
    /\ tri = TriIdle
    /\ schema = <<>>
    /\ comp = {}
    /\ IdleCompilation

\* pointer = MatrixPointer(matrix, r, c); a ValueError leaves the old pointer
NewPointerAt(r, c) ==
    /\ pointer' = IF MatrixPointer(matrix, r, c).raised THEN pointer
                  ELSE MatrixPointer(matrix, r, c).ptr
    /\ result' = [op |-> "MatrixPointer", raised |-> MatrixPointer(matrix, r, c).raised]
    /\ UNCHANGED <<levVars, tri, schVars, tcVars, matrix, iter>>

NewPointer == \E r \in Coords, c \in Coords : NewPointerAt(r, c)

\* pointer.r = r
SetRTo(r) ==
    /\ pointer' = set_r(pointer, matrix, r).ptr
    /\ result' = [op |-> "r", raised |-> set_r(pointer, matrix, r).raised]
    /\ UNCHANGED <<levVars, tri, schVars, tcVars, matrix, iter>>

SetR == \E r \in Coords : SetRTo(r)

\* pointer.c = c
SetCTo(c) ==
    /\ pointer' = set_c(pointer, matrix, c).ptr
    /\ result' = [op |-> "c", raised |-> set_c(pointer, matrix, c).raised]
    /\ UNCHANGED <<levVars, tri, schVars, tcVars, matrix, iter>>

SetC == \E c \in Coords : SetCTo(c)

\* pointer[key] = value
SetItemTo(key, value) ==
    /\ pointer' = pointer_setitem(pointer, matrix, key, value).ptr
    /\ result' = [op |-> "setitem",
                  raised |-> pointer_setitem(pointer, matrix, key, value).raised]
    /\ UNCHANGED <<levVars, tri, schVars, tcVars, matrix, iter>>

SetItem == \E key \in 0..2, value \in Coords : SetItemTo(key, value)

\* pointer.mleft()
Mleft ==
    /\ pointer[2] > Lowest
    /\ pointer' = mleft(pointer, matrix).ptr
    /\ result' = [op |-> "mleft", ok |-> mleft(pointer, matrix).ok]
    /\ UNCHANGED <<levVars, tri, schVars, tcVars, matrix, iter>>

\* pointer.mright()
Mright ==
    /\ pointer' = mright(pointer, matrix).ptr
    /\ result' = [op |-> "mright", ok |-> mright(pointer, matrix).ok]
    /\ UNCHANGED <<levVars, tri, schVars, tcVars, matrix, iter>>

\* pointer.mup()
Mup ==
    /\ pointer[1] > Lowest
    /\ pointer' = mup(pointer, matrix).ptr
    /\ result' = [op |-> "mup", ok |-> mup(pointer, matrix).ok]
    /\ UNCHANGED <<levVars, tri, schVars, tcVars, matrix, iter>>

\* pointer.mdown()
Mdown ==
    /\ pointer' = mdown(pointer, matrix).ptr
    /\ result' = [op |-> "mdown", ok |-> mdown(pointer, matrix).ok]
    /\ UNCHANGED <<levVars, tri, schVars, tcVars, matrix, iter>>

\* pointer.mupleft()
Mupleft ==
    /\ pointer' = mupleft(pointer, matrix).ptr
    /\ result' = [op |-> "mupleft", ok |-> mupleft(pointer, matrix).ok]
    /\ UNCHANGED <<levVars, tri, schVars, tcVars, matrix, iter>>

\* pointer.mupright()
Mupright ==
    /\ pointer' = mupright(pointer, matrix).ptr
    /\ result' = [op |-> "mupright", ok |-> mupright(pointer, matrix).ok]
    /\ UNCHANGED <<levVars, tri, schVars, tcVars, matrix, iter>>

\* pointer.mdownleft()
Mdownleft ==
    /\ pointer' = mdownleft(pointer, matrix).ptr
    /\ result' = [op |-> "mdownleft", ok |-> mdownleft(pointer, matrix).ok]
    /\ UNCHANGED <<levVars, tri, schVars, tcVars, matrix, iter>>

\* pointer.mdownright()
Mdownright ==
    /\ pointer' = mdownright(pointer, matrix).ptr
    /\ result' = [op |-> "mdownright", ok |-> mdownright(pointer, matrix).ok]
    /\ UNCHANGED <<levVars, tri, schVars, tcVars, matrix, iter>>

\* pointer.cleft()
Cleft ==
    /\ result' = [op |-> "cleft", out |-> returned(mleft(copy(pointer), matrix))]
    /\ UNCHANGED <<levVars, tri, schVars, tcVars, matrix, pointer, iter>>

\* pointer.cright()
Cright ==
    /\ result' = [op |-> "cright", out |-> returned(mright(copy(pointer), matrix))]
    /\ UNCHANGED <<levVars, tri, schVars, tcVars, matrix, pointer, iter>>

\* pointer.cup()
Cup ==
    /\ result' = [op |-> "cup", out |-> returned(mup(copy(pointer), matrix))]
    /\ UNCHANGED <<levVars, tri, schVars, tcVars, matrix, pointer, iter>>

\* pointer.cdown()
Cdown ==
    /\ result' = [op |-> "cdown", out |-> returned(mdown(copy(pointer), matrix))]
    /\ UNCHANGED <<levVars, tri, schVars, tcVars, matrix, pointer, iter>>

\* pointer.cupleft()
Cupleft ==
    /\ result' = [op |-> "cupleft", out |-> returned(mupleft(copy(pointer), matrix))]
    /\ UNCHANGED <<levVars, tri, schVars, tcVars, matrix, pointer, iter>>

\* pointer.cupright()
Cupright ==
    /\ result' = [op |-> "cupright", out |-> returned(mupright(copy(pointer), matrix))]
    /\ UNCHANGED <<levVars, tri, schVars, tcVars, matrix, pointer, iter>>

\* pointer.cdownleft()
Cdownleft ==
    /\ result' = [op |-> "cdownleft", out |-> returned(mdownleft(copy(pointer), matrix))]
    /\ UNCHANGED <<levVars, tri, schVars, tcVars, matrix, pointer, iter>>

\* pointer.cdownright()
Cdownright ==
    /\ result' = [op |-> "cdownright", out |-> returned(mdownright(copy(pointer), matrix))]
    /\ UNCHANGED <<levVars, tri, schVars, tcVars, matrix, pointer, iter>>

\* pointer.advance(); calls counts the advance() calls made in a row
Advance ==
    /\ result.op = "advance" => result.calls <= matrix.n_rows * matrix.n_cols
    /\ pointer' = advance(pointer, matrix.n_rows, matrix.n_cols).ptr
    /\ result' = [op |-> "advance",
                  ok |-> advance(pointer, matrix.n_rows, matrix.n_cols).ok,
                  calls |-> IF result.op = "advance" THEN result.calls + 1 ELSE 1]
    /\ UNCHANGED <<levVars, tri, schVars, tcVars, matrix, iter>>

\* the pointers bound to the matrix that another caller may hold
Pointers == {q \in Coords \X Coords : q[1] < matrix.n_rows /\ q[2] < matrix.n_cols}

\* pointer.directionto(other)
DirectionToOf(other) ==
    /\ result' = [op |-> "directionto", out |-> directionto(pointer, other)]
    /\ UNCHANGED <<levVars, tri, schVars, tcVars, matrix, pointer, iter>>

DirectionTo == \E other \in Pointers : DirectionToOf(other)

\* pointer.directionfrom(other)
DirectionFromOf(other) ==
    /\ result' = [op |-> "directionfrom", out |-> directionfrom(pointer, other)]
    /\ UNCHANGED <<levVars, tri, schVars, tcVars, matrix, pointer, iter>>

DirectionFrom == \E other \in Pointers : DirectionFromOf(other)

NextPointer ==
    \/ NewPointer \/ SetR \/ SetC \/ SetItem
    \/ Mleft \/ Mright \/ Mup \/ Mdown
    \/ Mupleft \/ Mupright \/ Mdownleft \/ Mdownright
    \/ Cleft \/ Cright \/ Cup \/ Cdown
    \/ Cupleft \/ Cupright \/ Cdownleft \/ Cdownright
    \/ Advance \/ DirectionTo \/ DirectionFrom

SpecPointer == InitPointer /\ [][NextPointer]_vars

(***************************************************************************)
(* Walking a Matrix: a pointer built at (0, 0) is advanced, and the matrix *)
(* is iterated and enumerated.  The cells were written with 0 or 1.        *)
(***************************************************************************)
CellValues == {0, 1}

Written(rows, cols) ==
    {[n_rows |-> rows, n_cols |-> cols, default_value |-> 0, cells |-> cells] :
        cells \in [Cells(rows, cols) -> CellValues]}

InitIter ==
    /\ \E rows \in 1..MaxGrid, cols \in 1..MaxGrid : matrix \in Written(rows, cols)
    /\ pointer = MatrixPointer(matrix, 0, 0).ptr
    /\ iter = NoIter
    /\ result = NoResult
    /\ ld = Levenshtein(<<>>, <<>>, 1, 1, 1)
    /\ ret = TRUE
    /\ raised = FALSE
    /\ tri = TriIdle
    /\ schema = <<>>
    /\ comp = {}
    /\ IdleCompilation

\* iter(matrix)
Iter ==
    /\ iter' = MatrixIterator(matrix, FALSE)
    /\ UNCHANGED <<levVars, tri, schVars, tcVars, matrix, pointer, result>>

\* matrix.enumerator()
Enumerator ==
    /\ iter' = MatrixIterator(matrix, TRUE)
    /\ UNCHANGED <<levVars, tri, schVars, tcVars, matrix, pointer, result>>

\* next(iter)
Next ==
    /\ iter.started
    /\ iter' = next(iter, matrix)
    /\ UNCHANGED <<levVars, tri, schVars, tcVars, matrix, pointer, result>>

NextIter == Iter \/ Enumerator \/ Next \/ Advance

SpecIter == InitIter /\ [][NextIter]_vars

(***************************************************************************)
(* Element access: a Matrix(rows, cols, 0) is read and written at indices  *)
(* inside the grid, negative, and outside the grid on either side.         *)
(***************************************************************************)
Indices == (0 - MaxGrid - 1)..MaxGrid

InitGrid ==
    /\ \E rows \in 1..MaxGrid, cols \in 1..MaxGrid : matrix = NewMatrix(rows, cols, 0)
    /\ pointer = MatrixPointer(matrix, 0, 0).ptr
    /\ iter = NoIter
    /\ result = NoResult
    /\ ld = Levenshtein(<<>>, <<>>, 1, 1, 1)
    /\ ret = TRUE
    /\ raised = FALSE
    /\ tri = TriIdle
    /\ schema = <<>>
    /\ comp = {}
    /\ IdleCompilation

\* matrix[row, col]
GetItemAt(row, col) ==
    /\ result' = [op |-> "getitem", row |-> row, col |-> col,
                  out |-> Matrix_getitem(matrix, row, col)]
    /\ UNCHANGED <<levVars, tri, schVars, tcVars, matrix, pointer, iter>>

GetItem == \E row \in Indices, col \in Indices : GetItemAt(row, col)

\* matrix[row, col] = value
PutItemAt(row, col, value) ==
    /\ matrix' = Matrix_setitem(matrix, row, col, value).m
    /\ result' = [op |-> "setitem", row |-> row, col |-> col,
                  raised |-> Matrix_setitem(matrix, row, col, value).raised]
    /\ UNCHANGED <<levVars, tri, schVars, tcVars, pointer, iter>>

PutItem == \E row \in Indices, col \in Indices, value \in CellValues :
              PutItemAt(row, col, value)

NextGrid == GetItem \/ PutItem

SpecGrid == InitGrid /\ [][NextGrid]_vars

(***************************************************************************)
(* Growing a Matrix: every cell of a Matrix(rows, cols, 0) was written     *)
(* with a number of its own, 2 and up in row-major order; rows and columns *)
(* are then inserted and appended, with the default value or with the      *)
(* values -1, -2, ... supplied.                                            *)
(***************************************************************************)
DefaultValues == {0, 1}

Numbered(rows, cols) ==
    [n_rows |-> rows, n_cols |-> cols, default_value |-> 0,
     cells |-> [cell \in Cells(rows, cols) |-> cell[1] * cols + cell[2] + 2]]

InsertIndices == (0 - MaxGrid - 1)..(MaxGrid + 1)

NewValues(n) == [j \in 1..n |-> 0 - j]

Supplied == {Nothing} \cup {Some(NewValues(n)) : n \in 0..MaxGrid}

\* the rows and columns put in so far; a matrix is grown by MaxGrid of them
Inserted == IF result.op = "none" THEN 0 ELSE result.inserted

CanGrow == Inserted < MaxGrid

InitInsert ==
    /\ \E rows \in 1..MaxGrid, cols \in 1..MaxGrid : matrix = Numbered(rows, cols)
    /\ pointer = MatrixPointer(matrix, 0, 0).ptr
    /\ iter = NoIter
    /\ result = NoResult
    /\ ld = Levenshtein(<<>>, <<>>, 1, 1, 1)
    /\ ret = TRUE
    /\ raised = FALSE
    /\ tri = TriIdle
    /\ schema = <<>>
    /\ comp = {}
    /\ IdleCompilation

\* matrix.default_value = value
SetDefault ==
    /\ \E value \in DefaultValues : matrix' = [matrix EXCEPT !.default_value = value]
    /\ result' = [op |-> "default_value", inserted |-> Inserted]
    /\ UNCHANGED <<levVars, tri, schVars, tcVars, pointer, iter>>

\* matrix.insert_row(row, values)
InsertRowAt(row, values) ==
    /\ CanGrow
    /\ matrix' = insert_row(matrix, row, values).m
    /\ result' = [op |-> "insert_row", raised |-> insert_row(matrix, row, values).raised,
                  inserted |-> IF insert_row(matrix, row, values).raised THEN Inserted ELSE Inserted + 1]
    /\ UNCHANGED <<levVars, tri, schVars, tcVars, pointer, iter>>

InsertRow == \E row \in InsertIndices, values \in Supplied : InsertRowAt(row, values)

\* matrix.append_row(values)
AppendRowOf(values) ==
    /\ CanGrow
    /\ matrix' = append_row(matrix, values).m
    /\ result' = [op |-> "append_row", raised |-> append_row(matrix, values).raised,
                  inserted |-> IF append_row(matrix, values).raised THEN Inserted ELSE Inserted + 1]
    /\ UNCHANGED <<levVars, tri, schVars, tcVars, pointer, iter>>

AppendRow == \E values \in Supplied : AppendRowOf(values)

\* matrix.insert_col(col, values)
InsertColAt(col, values) ==
    /\ CanGrow
    /\ matrix' = insert_col(matrix, col, values).m
    /\ result' = [op |-> "insert_col", raised |-> insert_col(matrix, col, values).raised,
                  inserted |-> IF insert_col(matrix, col, values).raised THEN Inserted ELSE Inserted + 1]
    /\ UNCHANGED <<levVars, tri, schVars, tcVars, pointer, iter>>

InsertCol == \E col \in InsertIndices, values \in Supplied : InsertColAt(col, values)

\* matrix.append_col(values)
AppendColOf(values) ==
    /\ CanGrow
    /\ matrix' = append_col(matrix, values).m
    /\ result' = [op |-> "append_col", raised |-> append_col(matrix, values).raised,
                  inserted |-> IF append_col(matrix, values).raised THEN Inserted ELSE Inserted + 1]
    /\ UNCHANGED <<levVars, tri, schVars, tcVars, pointer, iter>>

AppendCol == \E values \in Supplied : AppendColOf(values)

NextInsert == SetDefault \/ InsertRow \/ AppendRow \/ InsertCol \/ AppendCol

SpecInsert == InitInsert /\ [][NextInsert]_vars

(***************************************************************************)
(* The Matrix object as it is stored: the counters n_rows and n_cols, the  *)
(* list of rows __data, the default value, the optional label sequences    *)
(* and the cell width.  An optional sequence is Nothing or Some(values).   *)
(***************************************************************************)
\* list.insert(i, x)
list_insert(xs, i, x) ==
    SubSeq(xs, 1, list_insert_index(Len(xs), i)) \o <<x>>
        \o SubSeq(xs, list_insert_index(Len(xs), i) + 1, Len(xs))

\* the row_labels setter: ValueError, or the object with the labels assigned
set_row_labels_unchecked(m, rlabels) ==
    [raised |-> FALSE, m |-> [m EXCEPT !.row_labels = rlabels]]
set_row_labels(m, rlabels) ==
    IF ~rlabels.given
    THEN [raised |-> FALSE, m |-> [m EXCEPT !.row_labels = Nothing]]
    ELSE IF Len(rlabels.values) # m.n_rows
    THEN [raised |-> TRUE, m |-> m]
    ELSE [raised |-> FALSE, m |-> [m EXCEPT !.row_labels = rlabels]]

\* the col_labels setter
set_col_labels(m, clabels) ==
    IF ~clabels.given
    THEN [raised |-> FALSE, m |-> [m EXCEPT !.col_labels = Nothing]]
    ELSE IF Len(clabels.values) # m.n_cols
    THEN [raised |-> TRUE, m |-> m]
    ELSE [raised |-> FALSE, m |-> [m EXCEPT !.col_labels = clabels]]

\* the object Matrix.__init__ has built when it comes to assign the labels
Unlabelled(rows, cols, default_value) ==
    [n_rows |-> rows, n_cols |-> cols, default_value |-> default_value,
     data |-> [r \in 1..rows |-> [c \in 1..cols |-> default_value]],
     row_labels |-> Nothing, col_labels |-> Nothing, cell_width |-> 0]

\* Matrix(rows, cols, default_value, rlabels, clabels): ValueError, or
\* the new object
Matrix_init(rows, cols, default_value, rlabels, clabels) ==
    IF rows < 1 \/ cols < 1
    THEN [raised |-> TRUE]
    ELSE IF set_row_labels(Unlabelled(rows, cols, default_value), rlabels).raised
    THEN [raised |-> TRUE]
    ELSE set_col_labels(
            set_row_labels(Unlabelled(rows, cols, default_value), rlabels).m,
            clabels)

\* Matrix.setitem(row, col, value) on the stored rows: IndexError, or the write
data_setitem(m, row, col, value) ==
    IF ~validate_row_index(m, wrap_row(m.n_rows, row))
        \/ ~validate_col_index(m, wrap_col(m.n_cols, col))
    THEN [raised |-> TRUE, m |-> m]
    ELSE [raised |-> FALSE,
          m |-> [m EXCEPT !.data[wrap_row(m.n_rows, row) + 1]
                                 [wrap_col(m.n_cols, col) + 1] = value]]

\* Matrix.setrow(row, values): IndexError, ValueError, or the row replaced
Matrix_setrow_of_any_length(m, row, values) ==
    IF ~validate_row_index(m, wrap_row(m.n_rows, row))
    THEN [raised |-> TRUE, m |-> m]
    ELSE [raised |-> FALSE,
          m |-> [m EXCEPT !.data[wrap_row(m.n_rows, row) + 1] = values]]
Matrix_setrow(m, row, values) ==
    IF ~validate_row_index(m, wrap_row(m.n_rows, row))
    THEN [raised |-> TRUE, m |-> m]
    ELSE IF Len(values) # m.n_cols
    THEN [raised |-> TRUE, m |-> m]
    ELSE [raised |-> FALSE,
          m |-> [m EXCEPT !.data[wrap_row(m.n_rows, row) + 1] = values]]

\* Matrix.setcol(col, values): the cells of the column are written one by one
Matrix_setcol(m, col, values) ==
    IF ~validate_col_index(m, wrap_col(m.n_cols, col))
    THEN [raised |-> TRUE, m |-> m]
    ELSE IF Len(values) # m.n_rows
    THEN [raised |-> TRUE, m |-> m]
    ELSE [raised |-> FALSE,
          m |-> [m EXCEPT !.data = [r \in 1..m.n_rows |->
                    [m.data[r] EXCEPT ![wrap_col(m.n_cols, col) + 1] = values[r]]]]]

\* Matrix.insert_row(row, values) on the stored rows
Matrix_insert_row(m, row, values) ==
    IF values.given /\ Len(values.values) # m.n_cols
    THEN [raised |-> TRUE, m |-> m]
    ELSE [raised |-> FALSE,
          m |-> [m EXCEPT
                    !.data = list_insert(m.data, row,
                                IF values.given THEN values.values
                                ELSE [c \in 1..m.n_cols |-> m.default_value]),
                    !.n_rows = @ + 1]]

\* Matrix.append_row(values)
Matrix_append_row(m, values) == Matrix_insert_row(m, m.n_rows, values)

\* Matrix.insert_col(col, values) on the stored rows
Matrix_insert_col_in_the_first_row(m, col, values) ==
    IF values.given /\ Len(values.values) # m.n_rows
    THEN [raised |-> TRUE, m |-> m]
    ELSE [raised |-> FALSE,
          m |-> [m EXCEPT
                    !.data[1] = list_insert(m.data[1], col,
                                    IF values.given THEN values.values[1]
                                    ELSE m.default_value),
                    !.n_cols = @ + 1]]
Matrix_insert_col(m, col, values) ==
    IF values.given /\ Len(values.values) # m.n_rows
    THEN [raised |-> TRUE, m |-> m]
    ELSE [raised |-> FALSE,
          m |-> [m EXCEPT
                    !.data = [r \in 1..m.n_rows |->
                        list_insert(m.data[r], col,
                            IF values.given THEN values.values[r]
                            ELSE m.default_value)],
                    !.n_cols = @ + 1]]

\* Matrix.append_col(values)
Matrix_append_col(m, values) == Matrix_insert_col(m, m.n_cols, values)

\* Matrix.copy(): ValueError from the constructor, or the copy; map(function)
\* builds its result the same way
Matrix_copy(m) ==
    IF Matrix_init(m.n_rows, m.n_cols, m.default_value, m.row_labels,
                   m.col_labels).raised
    THEN [raised |-> TRUE]
    ELSE [raised |-> FALSE,
          m |-> [Matrix_init(m.n_rows, m.n_cols, m.default_value, m.row_labels,
                             m.col_labels).m
                    EXCEPT !.data = [r \in 1..m.n_rows |->
                                        [c \in 1..m.n_cols |-> m.data[r][c]]],
                           !.cell_width = m.cell_width]]

\* Matrix.__eq__(other) for another Matrix: the cells are compared when the
\* dimensions agree; otherwise NotImplemented, which == turns into False for
\* two different objects
Matrix_eq(m, other) ==
    IF <<m.n_rows, m.n_cols>> = <<other.n_rows, other.n_cols>>
    THEN \A r \in 1..m.n_rows, c \in 1..m.n_cols : m.data[r][c] = other.data[r][c]
    ELSE FALSE

\* Matrix.__eq__(other) for a sequence of sequences: the loop over the rows
\* returns in its first round; otherwise NotImplemented, hence False
Matrix_eq_sequence(m, other) ==
    IF Len(other) = m.n_rows
    THEN m.data[1] = other[1]
    ELSE FALSE

(***************************************************************************)
(* Shaping a Matrix: objects are constructed, with and without labels,     *)
(* their cells, rows and columns written, rows and columns inserted and    *)
(* appended, their labels assigned, and copies made.  A failed             *)
(* construction leaves the object at hand as it is.                        *)
(***************************************************************************)
IdleEngine ==
    /\ ld = Levenshtein(<<>>, <<>>, 1, 1, 1)
    /\ ret = TRUE
    /\ raised = FALSE
    /\ tri = TriIdle
    /\ schema = <<>>
    /\ comp = {}
    /\ IdleCompilation

\* sizes asked of the constructor, lengths of supplied sequences, indices
Sizes == (0 - 1)..MaxShape

Lengths == 0..(MaxShape + 1)

\* the objects kept are those of no more than MaxShape rows and columns and
\* no more than MaxCells cells
MaxCells == 2 * MaxShape

Kept(rows, cols) == rows <= MaxShape /\ cols <= MaxShape /\ rows * cols <= MaxCells

ShapeIndices == (0 - MaxShape - 1)..MaxShape

Uniform(n, value) == [j \in 1..n |-> value]

\* label sequences: the label of the j-th row or column is j
LabelsOf(n) == [j \in 1..n |-> j]

SomeLabels == {Nothing} \cup {Some(LabelsOf(n)) : n \in Lengths}

SomeValues == {Uniform(n, value) : n \in Lengths, value \in CellValues}

MaybeValues == {Nothing} \cup {Some(values) : values \in SomeValues}

InitShape ==
    /\ matrix = Matrix_init(1, 1, 0, Nothing, Nothing).m
    /\ pointer = <<0, 0>>
    /\ iter = NoIter
    /\ result = NoResult
    /\ IdleEngine

\* matrix = Matrix(rows, cols, 0, row_labels, col_labels), the same sequence
\* given for both
NewOf(rows, cols, rlabels, clabels) ==
    /\ Kept(rows, cols)
    /\ matrix' = IF Matrix_init(rows, cols, 0, rlabels, clabels).raised
                 THEN matrix
                 ELSE Matrix_init(rows, cols, 0, rlabels, clabels).m
    /\ result' = [op |-> "Matrix",
                  raised |-> Matrix_init(rows, cols, 0, rlabels, clabels).raised]
    /\ UNCHANGED <<levVars, tri, schVars, tcVars, pointer, iter>>

New == \E rows \in Sizes, cols \in Sizes, labels \in SomeLabels :
          NewOf(rows, cols, labels, labels)

\* matrix[row, col] = value
WriteItem ==
    \E row \in ShapeIndices, col \in ShapeIndices, value \in CellValues :
        /\ matrix' = data_setitem(matrix, row, col, value).m
        /\ result' = [op |-> "setitem",
                      raised |-> data_setitem(matrix, row, col, value).raised]
        /\ UNCHANGED <<levVars, tri, schVars, tcVars, pointer, iter>>

\* matrix.setrow(row, values)
SetRowTo(row, values) ==
    /\ matrix' = Matrix_setrow(matrix, row, values).m
    /\ result' = [op |-> "setrow", raised |-> Matrix_setrow(matrix, row, values).raised]
    /\ UNCHANGED <<levVars, tri, schVars, tcVars, pointer, iter>>

SetRow == \E row \in ShapeIndices, values \in SomeValues : SetRowTo(row, values)

\* matrix.setcol(col, values)
SetColTo(col, values) ==
    /\ matrix' = Matrix_setcol(matrix, col, values).m
    /\ result' = [op |-> "setcol", raised |-> Matrix_setcol(matrix, col, values).raised]
    /\ UNCHANGED <<levVars, tri, schVars, tcVars, pointer, iter>>

SetCol == \E col \in ShapeIndices, values \in SomeValues : SetColTo(col, values)

\* matrix.insert_row(row, values)
PutRowAt(row, values) ==
    /\ Kept(matrix.n_rows + 1, matrix.n_cols)
    /\ matrix' = Matrix_insert_row(matrix, row, values).m
    /\ result' = [op |-> "insert_row",
                  raised |-> Matrix_insert_row(matrix, row, values).raised]
    /\ UNCHANGED <<levVars, tri, schVars, tcVars, pointer, iter>>

PutRow == \E row \in ShapeIndices, values \in MaybeValues : PutRowAt(row, values)

\* matrix.append_row(values)
AddRowOf(values) ==
    /\ Kept(matrix.n_rows + 1, matrix.n_cols)
    /\ matrix' = Matrix_append_row(matrix, values).m
    /\ result' = [op |-> "append_row",
                  raised |-> Matrix_append_row(matrix, values).raised]
    /\ UNCHANGED <<levVars, tri, schVars, tcVars, pointer, iter>>

AddRow == \E values \in MaybeValues : AddRowOf(values)

\* matrix.insert_col(col, values)
PutColAt(col, values) ==
    /\ Kept(matrix.n_rows, matrix.n_cols + 1)
    /\ matrix' = Matrix_insert_col(matrix, col, values).m
    /\ result' = [op |-> "insert_col",
                  raised |-> Matrix_insert_col(matrix, col, values).raised]
    /\ UNCHANGED <<levVars, tri, schVars, tcVars, pointer, iter>>

PutCol == \E col \in ShapeIndices, values \in MaybeValues : PutColAt(col, values)

\* matrix.append_col(values)
AddColOf(values) ==
    /\ Kept(matrix.n_rows, matrix.n_cols + 1)
    /\ matrix' = Matrix_append_col(matrix, values).m
    /\ result' = [op |-> "append_col",
                  raised |-> Matrix_append_col(matrix, values).raised]
    /\ UNCHANGED <<levVars, tri, schVars, tcVars, pointer, iter>>

AddCol == \E values \in MaybeValues : AddColOf(values)

\* matrix.row_labels = labels
SetRowLabelsTo(labels) ==
    /\ matrix' = set_row_labels(matrix, labels).m
    /\ result' = [op |-> "row_labels", raised |-> set_row_labels(matrix, labels).raised]
    /\ UNCHANGED <<levVars, tri, schVars, tcVars, pointer, iter>>

SetRowLabels == \E labels \in SomeLabels : SetRowLabelsTo(labels)

\* matrix.col_labels = labels
SetColLabelsTo(labels) ==
    /\ matrix' = set_col_labels(matrix, labels).m
    /\ result' = [op |-> "col_labels", raised |-> set_col_labels(matrix, labels).raised]
    /\ UNCHANGED <<levVars, tri, schVars, tcVars, pointer, iter>>

SetColLabels == \E labels \in SomeLabels : SetColLabelsTo(labels)

\* matrix.copy(), the copy dropped
Copy ==
    /\ result' = [op |-> "copy", raised |-> Matrix_copy(matrix).raised]
    /\ UNCHANGED <<levVars, tri, schVars, tcVars, matrix, pointer, iter>>

NextShape ==
    \/ New \/ WriteItem \/ SetRow \/ SetCol \/ PutRow \/ AddRow \/ PutCol \/ AddCol
    \/ SetRowLabels \/ SetColLabels \/ Copy

SpecShape == InitShape /\ [][NextShape]_vars

(***************************************************************************)
(* Comparing a Matrix: a matrix with written cells, default value 0, no    *)
(* labels and cell width 0 is compared with labelled matrices of another   *)
(* default value and cell width, and with sequences of sequences.          *)
(***************************************************************************)
\* the rows a matrix or a nested sequence of that shape may hold
RowsOf(rows, cols) == [1..rows -> [1..cols -> CellValues]]

Shapes == {shape \in (1..MaxShape) \X (1..MaxShape) : Kept(shape[1], shape[2])}

OtherMatrix(rows) ==
    [n_rows |-> Len(rows), n_cols |-> Len(rows[1]), default_value |-> 1,
     data |-> rows, row_labels |-> Some(LabelsOf(Len(rows))),
     col_labels |-> Some(LabelsOf(Len(rows[1]))), cell_width |-> 1]

InitEq ==
    /\ \E shape \in Shapes : \E rows \in RowsOf(shape[1], shape[2]) :
            matrix = [Unlabelled(shape[1], shape[2], 0) EXCEPT !.data = rows]
    /\ pointer = <<0, 0>>
    /\ iter = NoIter
    /\ result = NoResult
    /\ IdleEngine

\* matrix == other, other a Matrix
EqWith(other) ==
    /\ result' = [op |-> "eq", out |-> Matrix_eq(matrix, other)]
    /\ UNCHANGED <<levVars, tri, schVars, tcVars, matrix, pointer, iter>>

Eq == \E shape \in Shapes : \E rows \in RowsOf(shape[1], shape[2]) :
            EqWith(OtherMatrix(rows))

\* matrix == other, other a list of lists
EqSequenceWith(other) ==
    /\ result' = [op |-> "eq_sequence", out |-> Matrix_eq_sequence(matrix, other)]
    /\ UNCHANGED <<levVars, tri, schVars, tcVars, matrix, pointer, iter>>

EqSequence == \E shape \in Shapes : \E rows \in RowsOf(shape[1], shape[2]) :
                    EqSequenceWith(rows)

NextEq == Eq \/ EqSequence

SpecEq == InitEq /\ [][NextEq]_vars

(***************************************************************************)
(* Writing into a TargetSchema, a Matrix of n_forms rows and length        *)
(* columns whose cells start as TargetSegment().  The values written are a *)
(* TargetSegment, None, or a number; a cell holds what was written.        *)
(***************************************************************************)
NoneValue == [type |-> "NoneType"]

Number == [type |-> "int"]

\* isinstance(value, TargetSegment); isinstance(value, type(None))
is_TargetSegment(value) == "target" \in DOMAIN value

is_None(value) == value = NoneValue

\* TargetSchema(length, n_forms)
TargetSchema(length, n_forms) ==
    Matrix_init(n_forms, length, TargetSegment(None, 0), Nothing, Nothing)

\* TargetSchema.setitem(row, col, value), also s[row, col] = value and
\* s[ptr] = value: only a TargetSegment or None is dispatched to it, and
\* isinstance(value, (TargetSegment, None)) returns True for a TargetSegment
\* and raises TypeError for any other value, None included
schema_setitem(s, row, col, value) ==
    IF ~(is_TargetSegment(value) \/ is_None(value))
    THEN [raised |-> TRUE, m |-> s]
    ELSE IF ~is_TargetSegment(value)
    THEN [raised |-> TRUE, m |-> s]
    ELSE data_setitem(s, row, col, value)

\* TargetSchema.setitem(ptr, value): only a TargetSegment or None is
\* dispatched to it, and it is written without a further test
schema_setitem_ptr(s, ptr, value) ==
    IF ~(is_TargetSegment(value) \/ is_None(value))
    THEN [raised |-> TRUE, m |-> s]
    ELSE data_setitem(s, ptr[1], ptr[2], value)

\* TargetSchema.setrow(row, values)
schema_setrow(s, row, values) ==
    IF \E j \in 1..Len(values) : ~(is_TargetSegment(values[j]) \/ is_None(values[j]))
    THEN [raised |-> TRUE, m |-> s]
    ELSE Matrix_setrow(s, row, values)

\* TargetSchema.setbase(form), TargetSchema.setform(index, form)
setbase(s, form) == schema_setrow(s, 0, form)

setform(s, index, form) == schema_setrow(s, index, form)

\* the loop of Matrix.setcol over the rows 0..n-1, each cell written with
\* TargetSchema.setitem: it ends at the first write that raises
RECURSIVE setcol_loop(_, _, _, _)
setcol_loop(s, col, values, r) ==
    IF r >= s.n_rows
    THEN [raised |-> FALSE, m |-> s]
    ELSE IF schema_setitem(s, r, col, values[r + 1]).raised
    THEN [raised |-> TRUE, m |-> s]
    ELSE setcol_loop(schema_setitem(s, r, col, values[r + 1]).m, col, values, r + 1)

\* TargetSchema.setcol(col, values)
schema_setcol(s, col, values) ==
    IF \E j \in 1..Len(values) : ~(is_TargetSegment(values[j]) \/ is_None(values[j]))
    THEN [raised |-> TRUE, m |-> s]
    ELSE IF ~validate_col_index(s, wrap_col(s.n_cols, col))
    THEN [raised |-> TRUE, m |-> s]
    ELSE IF Len(values) # s.n_rows
    THEN [raised |-> TRUE, m |-> s]
    ELSE setcol_loop(s, wrap_col(s.n_cols, col), values, 0)

Written1 == {TargetSegment("a", 1), NoneValue, Number}

Forms == UNION {[1..n -> Written1] : n \in Lengths}

InitWrite ==
    /\ \E shape \in Shapes : matrix = TargetSchema(shape[2], shape[1]).m
    /\ pointer = <<0, 0>>
    /\ iter = NoIter
    /\ result = NoResult
    /\ IdleEngine

\* s[row, col] = value
SchemaSetItemTo(row, col, value) ==
    /\ matrix' = schema_setitem(matrix, row, col, value).m
    /\ result' = [op |-> "setitem",
                  raised |-> schema_setitem(matrix, row, col, value).raised]
    /\ UNCHANGED <<levVars, tri, schVars, tcVars, pointer, iter>>

SchemaSetItem ==
    \E row \in ShapeIndices, col \in ShapeIndices, value \in Written1 :
        SchemaSetItemTo(row, col, value)

\* s.setitem(ptr, value), ptr a MatrixPointer of the schema
SchemaSetItemAt(ptr, value) ==
    /\ matrix' = schema_setitem_ptr(matrix, ptr, value).m
    /\ result' = [op |-> "setitem_ptr",
                  raised |-> schema_setitem_ptr(matrix, ptr, value).raised]
    /\ UNCHANGED <<levVars, tri, schVars, tcVars, pointer, iter>>

SchemaSetItemPtr ==
    \E ptr \in Cells(matrix.n_rows, matrix.n_cols), value \in Written1 :
        SchemaSetItemAt(ptr, value)

\* s.setbase(form)
SetBaseTo(form) ==
    /\ matrix' = setbase(matrix, form).m
    /\ result' = [op |-> "setbase", raised |-> setbase(matrix, form).raised]
    /\ UNCHANGED <<levVars, tri, schVars, tcVars, pointer, iter>>

SetBase == \E form \in Forms : SetBaseTo(form)

\* s.setform(index, form), also s.setrow(index, form)
SetFormTo(index, form) ==
    /\ matrix' = setform(matrix, index, form).m
    /\ result' = [op |-> "setform", raised |-> setform(matrix, index, form).raised]
    /\ UNCHANGED <<levVars, tri, schVars, tcVars, pointer, iter>>

SetForm == \E index \in ShapeIndices, form \in Forms : SetFormTo(index, form)

\* s.setcol(col, values)
SchemaSetColTo(col, values) ==
    /\ matrix' = schema_setcol(matrix, col, values).m
    /\ result' = [op |-> "setcol", raised |-> schema_setcol(matrix, col, values).raised]
    /\ UNCHANGED <<levVars, tri, schVars, tcVars, pointer, iter>>

SchemaSetCol == \E col \in ShapeIndices, values \in Forms : SchemaSetColTo(col, values)

NextWrite == SchemaSetItem \/ SchemaSetItemPtr \/ SetBase \/ SetForm \/ SchemaSetCol

SpecWrite == InitWrite /\ [][NextWrite]_vars

(***************************************************************************)
(* levenshtein.py: what is read off an engine, the direction grid and the  *)
(* four sequences of the backlink walk.                                    *)
(***************************************************************************)
\* dirmatrix: the loop over the cells after (0,0); a cell still holding the
\* default value has no coordinates to take a direction to (AttributeError)
RECURSIVE dirmatrix_loop_reversed(_, _, _, _)
dirmatrix_loop_reversed(dm, dirptr, rows, cols) ==
    LET a == advance(dirptr, rows, cols)
        held == getitem(dm, rows, cols, a.ptr)
    IN  IF ~a.ok THEN [raised |-> FALSE, out |-> dm]
        ELSE IF held = DefaultPointer THEN [raised |-> TRUE, out |-> dm]
        ELSE dirmatrix_loop_reversed(
                 setitem(dm, rows, cols, a.ptr, directionto(held, a.ptr)),
                 a.ptr, rows, cols)
RECURSIVE dirmatrix_loop(_, _, _, _)
dirmatrix_loop(dm, dirptr, rows, cols) ==
    LET a == advance(dirptr, rows, cols)
        held == getitem(dm, rows, cols, a.ptr)
    IN  IF ~a.ok THEN [raised |-> FALSE, out |-> dm]
        ELSE IF held = DefaultPointer THEN [raised |-> TRUE, out |-> dm]
        ELSE dirmatrix_loop(
                 setitem(dm, rows, cols, a.ptr, directionto(a.ptr, held)),
                 a.ptr, rows, cols)

\* dirmatrix: pmatrix.copy() is a grid of its own holding the same cell
\* values; the writes go to the copy. The backlink grid after the call, the
\* grid returned, and whether the call raised
dirmatrix(e) ==
    LET copied == [cell \in Cells(n_rows(e), n_cols(e)) |-> e.pmatrix[cell]]
        loop == dirmatrix_loop(
                    setitem(copied, n_rows(e), n_cols(e), <<0, 0>>, NoDirection),
                    <<0, 0>>, n_rows(e), n_cols(e))
    IN  [raised |-> loop.raised, pmatrix |-> e.pmatrix, out |-> loop.out]

\* dsequence, psequence, dirsequence: the walk of esequence, prepending the
\* cost, the backlink, the direction to the backlink
RECURSIVE dsequence_from(_, _, _)
dsequence_from(e, cur, costs) ==
    LET prior == e.pmatrix[cur]
        acc == <<e.dmatrix[cur]>> \o costs
    IN  IF prior = <<0, 0>> THEN acc ELSE dsequence_from(e, prior, acc)

dsequence(e) == dsequence_from(e, <<n_rows(e) - 1, n_cols(e) - 1>>, <<>>)

RECURSIVE psequence_from(_, _, _)
psequence_from(e, cur, pointers) ==
    LET prior == e.pmatrix[cur]
        acc == <<e.pmatrix[cur]>> \o pointers
    IN  IF prior = <<0, 0>> THEN acc ELSE psequence_from(e, prior, acc)

psequence(e) == psequence_from(e, <<n_rows(e) - 1, n_cols(e) - 1>>, <<>>)

RECURSIVE dirsequence_from(_, _, _)
dirsequence_from(e, cur, pointers) ==
    LET prior == e.pmatrix[cur]
        acc == <<directionto(cur, e.pmatrix[cur])>> \o pointers
    IN  IF prior = <<0, 0>> THEN acc ELSE dirsequence_from(e, prior, acc)

dirsequence(e) == dirsequence_from(e, <<n_rows(e) - 1, n_cols(e) - 1>>, <<>>)

\* ld.dirmatrix
ReadDirmatrix ==
    LET d == dirmatrix(ld)
    IN  /\ ld' = [ld EXCEPT !.pmatrix = d.pmatrix]
        /\ result' = IF d.raised THEN [op |-> "dirmatrix", raised |-> TRUE]
                     ELSE [op |-> "dirmatrix", raised |-> FALSE, out |-> d.out]
        /\ UNCHANGED <<ret, raised, tri, schVars, tcVars, matrix, pointer, iter>>

\* ld.esequence, ld.dsequence, ld.psequence, ld.dirsequence: each is None
\* unless computed
ReadSequences ==
    /\ result' = IF ld.computed
                 THEN [op |-> "sequences",
                       esequence |-> Some(esequence(ld)),
                       dsequence |-> Some(dsequence(ld)),
                       psequence |-> Some(psequence(ld)),
                       dirsequence |-> Some(dirsequence(ld))]
                 ELSE [op |-> "sequences",
                       esequence |-> Nothing, dsequence |-> Nothing,
                       psequence |-> Nothing, dirsequence |-> Nothing]
    /\ UNCHANGED <<levVars, tri, schVars, tcVars, matrix, pointer, iter>>

NextRead == Compute \/ ReadDirmatrix \/ ReadSequences

SpecRead == InitLev /\ [][NextRead]_vars

(***************************************************************************)
(* Edit scripts, for the statements about the distance.  A script for      *)
(* (i, j) is a sequence of INSERT / DELETE / SUBSTITUTE that consumes i    *)
(* source symbols and produces j target symbols; a SUBSTITUTE that pairs   *)
(* equal symbols costs 0.                                                  *)
(***************************************************************************)
RECURSIVE Scripts(_, _)
Scripts(i, j) ==
    IF i = 0 /\ j = 0 THEN {<<>>}
    ELSE (IF j > 0 THEN {<<INSERT>> \o x : x \in Scripts(i, j - 1)} ELSE {})
         \cup (IF i > 0 THEN {<<DELETE>> \o x : x \in Scripts(i - 1, j)} ELSE {})
         \cup (IF i > 0 /\ j > 0
               THEN {<<SUBSTITUTE>> \o x : x \in Scripts(i - 1, j - 1)} ELSE {})

\* the cost of a script applied to source[i..] and target[j..]
RECURSIVE ScriptCost(_, _, _, _)
ScriptCost(script, e, i, j) ==
    IF script = <<>> THEN 0
    ELSE IF Head(script) = INSERT
         THEN e.insert_cost + ScriptCost(Tail(script), e, i, j + 1)
    ELSE IF Head(script) = DELETE
         THEN e.delete_cost + ScriptCost(Tail(script), e, i + 1, j)
    ELSE (IF e.source[i] = e.target[j] THEN 0 ELSE e.substitute_cost)
         + ScriptCost(Tail(script), e, i + 1, j + 1)

MinOf(S) == CHOOSE x \in S : \A y \in S : x <= y

MinScriptCost(e) ==
    MinOf({ScriptCost(script, e, 1, 1) : script \in Scripts(Len(e.source), Len(e.target))})

levdistOf(e) ==
    levdist(e.source, e.target, e.insert_cost, e.delete_cost, e.substitute_cost)

\* C1: whenever the engine has run to completion, the distance it reports
\* (cell (m,n) of the cost grid, and the value of levdist on the same inputs)
\* is the minimum total cost over all edit scripts from source to target.
DistanceIsMinimalScriptCost ==
    ld.computed =>
        /\ distance(ld) = MinScriptCost(ld)
        /\ levdistOf(ld) = [raised |-> FALSE, value |-> MinScriptCost(ld)]

\* a completed run on two different sequences of length 2 under unequal
\* insert and delete costs, with a positive distance
DistanceIsMinimalWitness ==
    /\ ld.computed
    /\ Len(ld.source) = 2 /\ Len(ld.target) = 2
    /\ ld.insert_cost # ld.delete_cost
    /\ distance(ld) > 0

Fresh(e) ==
    e = Levenshtein(e.source, e.target, e.insert_cost, e.delete_cost, e.substitute_cost)

\* C2: no call ever ends in calculate()'s final ValueError, and compute() called
\* on a fresh engine ends with the computed flag set.
ValueErrorNeverRaised ==
    [][/\ ~raised'
       /\ (Compute /\ Fresh(ld)) => ld'.computed]_vars

\* C3: on (s, s) under any costs, zero included, the engine completes with
\* distance 0 and an edit script of NONE entries only.
IdenticalSequencesAreFree ==
    ld.source = ld.target =>
        /\ ~raised
        /\ ld.computed =>
            /\ distance(ld) = 0
            /\ \A k \in 1..Len(esequence(ld)) : esequence(ld)[k] = NONE

\* C4: with insert_cost = delete_cost, computing (t, s) ends as computing (s, t)
\* did: both raise, or both complete with the same distance.
SymmetricOutcome ==
    (ld.insert_cost = ld.delete_cost /\ (ld.computed \/ raised)) =>
        LET o == levdist(ld.target, ld.source, ld.insert_cost, ld.delete_cost,
                         ld.substitute_cost)
        IN  /\ o.raised = raised
            /\ o.value = distance(ld)

\* a completed run with equal insert and delete costs on sequences of
\* different lengths, with a positive distance
SymmetricOutcomeWitness ==
    /\ ld.computed
    /\ ld.insert_cost = ld.delete_cost
    /\ ld.substitute_cost # ld.insert_cost
    /\ Len(ld.source) = 2 /\ Len(ld.target) = 1
    /\ distance(ld) > 0

\* C5: for all a, b, c and one cost triple, the three distances exist and
\* distance(a,c) <= distance(a,b) + distance(b,c).
TriangleInequality ==
    tri.called =>
        /\ ~tri.ab.raised /\ ~tri.bc.raised /\ ~tri.ac.raised
        /\ tri.ac.value <= tri.ab.value + tri.bc.value

\* C6: with an empty source the engine never raises and completes with distance
\* n * insert_cost; with an empty target, with m * delete_cost; with both, 0.
EmptyInputs ==
    (ld.source = <<>> \/ ld.target = <<>>) =>
        /\ ~raised
        /\ ld.computed =>
            /\ ld.source = <<>> => distance(ld) = Len(ld.target) * ld.insert_cost
            /\ ld.target = <<>> => distance(ld) = Len(ld.source) * ld.delete_cost
            /\ (ld.source = <<>> /\ ld.target = <<>>) => distance(ld) = 0

\* a completed run from the empty source to a target of length 2 at insert
\* cost 2 and another delete cost
EmptyInputsWitness ==
    /\ ld.computed
    /\ ld.source = <<>> /\ Len(ld.target) = 2
    /\ ld.insert_cost = 2 /\ ld.delete_cost = 1
    /\ distance(ld) = 4

\* C7: with unit costs the engine never raises on the ten pairs of
\* test_levenshtein_unweighted and completes with the distance listed for each.
UnweightedDistances ==
    /\ ~raised
    /\ ld.computed =>
        \E u \in Unweighted :
            u.s = ld.source /\ u.t = ld.target /\ distance(ld) = u.dist

\* the completed run on ("Saturday", "Sunday")
UnweightedDistancesWitness ==
    /\ ld.computed
    /\ ld.source = <<"S","a","t","u","r","d","a","y">>
    /\ ld.target = <<"S","u","n","d","a","y">>
    /\ distance(ld) = 3

\* the interior cells the engine has assigned
AssignedInterior(e) ==
    {cell \in Cells(n_rows(e), n_cols(e)) :
        cell[1] > 0 /\ cell[2] > 0 /\ e.ematrix[cell] # DefaultEdit}

InsOf(e, cell) == e.dmatrix[<<cell[1], cell[2] - 1>>] + e.insert_cost

DelOf(e, cell) == e.dmatrix[<<cell[1] - 1, cell[2]>>] + e.delete_cost

SubOf(e, cell) ==
    e.dmatrix[<<cell[1] - 1, cell[2] - 1>>]
        + (IF e.source[cell[1]] = e.target[cell[2]] THEN 0 ELSE e.substitute_cost)

TookSubstitution(e, cell) ==
    /\ e.dmatrix[cell] = SubOf(e, cell)
    /\ e.pmatrix[cell] = <<cell[1] - 1, cell[2] - 1>>
    /\ e.ematrix[cell] \in {NONE, SUBSTITUTE}

TookInsertion(e, cell) ==
    /\ e.dmatrix[cell] = InsOf(e, cell)
    /\ e.pmatrix[cell] = <<cell[1], cell[2] - 1>>
    /\ e.ematrix[cell] = INSERT

TookDeletion(e, cell) ==
    /\ e.dmatrix[cell] = DelOf(e, cell)
    /\ e.pmatrix[cell] = <<cell[1] - 1, cell[2]>>
    /\ e.ematrix[cell] = DELETE

\* C8: every assigned interior cell took substitution exactly when sub <= ins
\* and sub <= del, insertion exactly when ins < del and ins < sub, and deletion
\* exactly when del < ins and del < sub.
TiePolicy ==
    \A cell \in AssignedInterior(ld) :
        LET ins == InsOf(ld, cell)
            del == DelOf(ld, cell)
            sub == SubOf(ld, cell)
        IN  /\ TookSubstitution(ld, cell) <=> (sub <= ins /\ sub <= del)
            /\ TookInsertion(ld, cell) <=> (ins < del /\ ins < sub)
            /\ TookDeletion(ld, cell) <=> (del < ins /\ del < sub)

\* a completed run whose interior holds an insertion, a deletion and a
\* substitution
TiePolicyWitness ==
    /\ ld.computed
    /\ \E cell \in AssignedInterior(ld) : TookInsertion(ld, cell)
    /\ \E cell \in AssignedInterior(ld) : TookDeletion(ld, cell)
    /\ \E cell \in AssignedInterior(ld) : TookSubstitution(ld, cell)

(***************************************************************************)
(* The compilation stated without the recursion: every ordered selection   *)
(* without repetition of alternants, the last writer of each column.       *)
(***************************************************************************)
Compiled == comp # {}

BaseIsConcrete(sch) == \A j \in 1..Len(sch[1]) : sch[1][j].target # None

\* the sequences of distinct alternant indices, of every length 0..n
OrderedSelections(n) ==
    {sel \in SeqsUpTo(1..n, n) :
        \A k1, k2 \in 1..Len(sel) : k1 # k2 => sel[k1] # sel[k2]}

MaxOf(S) == CHOOSE x \in S : \A y \in S : x >= y

\* the segment in column j once the alternants of sel were applied in order
FinalSegment(sch, sel, j) ==
    LET writers == {k \in 1..Len(sel) : sch[sel[k] + 1][j].target # None}
    IN  IF writers = {} THEN sch[1][j] ELSE sch[sel[MaxOf(writers)] + 1][j]

RECURSIVE SumUpTo(_, _)
SumUpTo(f, n) == IF n = 0 THEN 0 ELSE f[n] + SumUpTo(f, n - 1)

SelectionSequence(sch, sel) ==
    LET length == Len(sch[1])
    IN  [sequence |-> [j \in 1..length |-> FinalSegment(sch, sel, j).target],
         score    |-> SumUpTo([j \in 1..length |-> FinalSegment(sch, sel, j).score],
                              length)]

\* C9: for a schema whose base has a concrete target in every column, compile()
\* returns exactly the (targets, score) pairs of all ordered selections without
\* repetition of 0..n alternants, later writers overriding earlier ones, the
\* score being the sum over the segments finally present.
CompileIsAllOrderedSelections ==
    (Compiled /\ BaseIsConcrete(schema)) =>
        comp = {SelectionSequence(schema, sel) :
                    sel \in OrderedSelections(Len(schema) - 1)}

\* a compiled schema with a concrete base whose two alternants write different
\* targets into the same column, both resolutions being in the compilation
CompileIsAllOrderedSelectionsWitness ==
    /\ Compiled
    /\ BaseIsConcrete(schema)
    /\ Len(schema) = 3 /\ Len(schema[1]) = 2
    /\ schema[2][1].target = "a" /\ schema[3][1].target = "b"
    /\ schema[2][2].target = None /\ schema[3][2].target = "b"
    /\ \E x, y \in comp : x.sequence[1] = "a" /\ y.sequence[1] = "b"
                          /\ x.sequence[2] = "b" /\ y.sequence[2] = "b"

\* C10: a schema of a single base row compiles to exactly one sequence: the
\* base targets in order, scored with the sum of the base scores.
CompileOfBaseOnly ==
    (Compiled /\ Len(schema) = 1) =>
        comp = {[sequence |-> [j \in 1..Len(schema[1]) |-> schema[1][j].target],
                 score    |-> SumUpTo([j \in 1..Len(schema[1]) |-> schema[1][j].score],
                                      Len(schema[1]))]}

\* a compiled single-row schema of two columns with different scores
CompileOfBaseOnlyWitness ==
    /\ Compiled
    /\ Len(schema) = 1 /\ Len(schema[1]) = 2
    /\ schema[1][1].score # schema[1][2].score
    /\ Cardinality(comp) = 1

(***************************************************************************)
(* The compilation of the fixture.                                         *)
(***************************************************************************)
CompiledToList == data # <<>>

IsFixture == schema = Fixture(OtherTarget)

NoEqualElements ==
    \A i \in 1..Len(data), k \in 1..Len(data) :
        (data[i].sequence = data[k].sequence /\ data[i].score = data[k].score)
            => i = k

\* a sequence was formed along more than one order of alternants, and two
\* elements differ in their score only
NoEqualElementsWitness ==
    /\ CompiledToList
    /\ Len(schema) > 2
    /\ Len(data) < Cardinality(OrderedSelections(Len(schema) - 1))
    /\ \E i \in 1..Len(data), k \in 1..Len(data) :
            data[i].sequence = data[k].sequence /\ data[i].score # data[k].score
    /\ {data[k] : k \in 1..Len(data)} = comp

(***************************************************************************)
(* Lookups by the three kinds of key.                                      *)
(***************************************************************************)
HasFlat(e) == flatten(e.sequence) # None

ByStr(e) == StrKey(flatten(e.sequence))
BySequence(e) == SequenceKey(e.sequence)
ByItself(e) == TargetSequenceKey(e)

\* every stored element with the flattened string of e is equal to e
Unambiguous(e) ==
    \A i \in 1..Len(data) :
        flatten(data[i].sequence) = flatten(e.sequence) => data[i] = e

\* the last lookup, if any, returned what the lookup operators give on data
LookupRecorded ==
    /\ lookup.op = "locate" => lookup.out = locate(data, lookup.key)
    /\ lookup.op = "find" => lookup.out = find(data, lookup.key)
    /\ lookup.op = "count" => lookup.out = count(data, lookup.key)
    /\ lookup.op = "contains" => lookup.out = contains(data, lookup.key)

\* key is the key a caller makes of e
KeyIs(key, e) ==
    IF key.kind = "str" THEN key.x = flatten(e.sequence)
    ELSE IF key.kind = "Sequence" THEN key.x = e.sequence
    ELSE key.x = e

Outcome(op, key) ==
    IF op = "locate" THEN locate(data, key)
    ELSE IF op = "find" THEN find(data, key)
    ELSE IF op = "count" THEN count(data, key)
    ELSE contains(data, key)

\* C13 as stated: a lookup (find, locate, count, in) of a stored element e by
\* its flattened string, by its tuple of targets or by e itself gives what the
\* lookup by e itself gives, and find returns e.
LookupsAgree ==
    lookup.op # "none" =>
        \A n \in 1..Len(data) :
            (HasFlat(data[n]) /\ KeyIs(lookup.key, data[n])) =>
                /\ lookup.out = Outcome(lookup.op, ByItself(data[n]))
                /\ lookup.op = "find" =>
                        lookup.out = [raised |-> FALSE, value |-> data[n]]

\* C13 amended: every stored element e whose targets are all strings is found
\* under all three keys; a less specific key counts at least as many elements
\* and locates no later an index, none later than the place of e; and the
\* three keys give the same count, the same index and an element equal to e
\* when every stored element with the flattened string of e is equal to e.
LookupsAgreeWhenUnambiguous ==
    /\ LookupRecorded
    /\ \A n \in 1..Len(data) :
        HasFlat(data[n]) =>
            LET e == data[n]
            IN  /\ contains(data, ByStr(e))
                /\ contains(data, BySequence(e))
                /\ contains(data, ByItself(e))
                /\ 1 <= count(data, ByItself(e))
                /\ count(data, ByItself(e)) <= count(data, BySequence(e))
                /\ count(data, BySequence(e)) <= count(data, ByStr(e))
                /\ ~locate(data, ByStr(e)).raised
                /\ ~locate(data, BySequence(e)).raised
                /\ ~locate(data, ByItself(e)).raised
                /\ locate(data, ByStr(e)).value <= locate(data, BySequence(e)).value
                /\ locate(data, BySequence(e)).value <= locate(data, ByItself(e)).value
                /\ locate(data, ByItself(e)).value <= n - 1
                /\ find(data, ByItself(e)) = [raised |-> FALSE, value |-> e]
                /\ Unambiguous(e) =>
                    /\ count(data, ByStr(e)) = count(data, ByItself(e))
                    /\ count(data, BySequence(e)) = count(data, ByItself(e))
                    /\ locate(data, ByStr(e)) = locate(data, ByItself(e))
                    /\ locate(data, BySequence(e)) = locate(data, ByItself(e))
                    /\ find(data, ByStr(e)) = [raised |-> FALSE, value |-> e]
                    /\ find(data, BySequence(e)) = [raised |-> FALSE, value |-> e]

\* an element was found by its flattened string, which no different element
\* shares, in a compilation that also holds two elements with one flattened
\* string
LookupsAgreeWitness ==
    /\ lookup.op = "find"
    /\ lookup.key.kind = "str"
    /\ ~lookup.out.raised
    /\ Unambiguous(lookup.out.value)
    /\ \E n \in 1..Len(data) : HasFlat(data[n]) /\ ~Unambiguous(data[n])
    /\ Len(data) = MaxItems

(***************************************************************************)
(* The MatrixPointer and the grid of its Matrix.                           *)
(***************************************************************************)
Inside(q) ==
    /\ q[1] \in 0..(matrix.n_rows - 1)
    /\ q[2] \in 0..(matrix.n_cols - 1)

Rejected == result'.raised /\ pointer' = pointer

\* C14: constructing a pointer with, or assigning by attribute or by index 0
\* or 1, a coordinate outside [0, n_rows) or [0, n_cols), negative ones
\* included, raises and leaves the pointer where it was; so a pointer that
\* lies inside the grid still does after any such call.
OutOfRangeIsRejected ==
    [][/\ \A r \in Coords, c \in Coords :
            (NewPointerAt(r, c) /\ ~Inside(<<r, c>>)) => Rejected
       /\ \A r \in Coords :
            (SetRTo(r) /\ ~Inside(<<r, pointer[2]>>) /\ Inside(pointer)) => Rejected
       /\ \A c \in Coords :
            (SetCTo(c) /\ ~Inside(<<pointer[1], c>>) /\ Inside(pointer)) => Rejected
       /\ \A value \in Coords :
            (SetItemTo(0, value) /\ ~Inside(<<value, pointer[2]>>) /\ Inside(pointer))
                => Rejected
       /\ \A value \in Coords :
            (SetItemTo(1, value) /\ ~Inside(<<pointer[1], value>>) /\ Inside(pointer))
                => Rejected
       /\ (Inside(pointer) /\ result'.op \in {"MatrixPointer", "r", "c", "setitem"})
            => Inside(pointer')]_vars

InPlace ==
    {"mleft", "mright", "mup", "mdown", "mupleft", "mupright", "mdownleft", "mdownright"}

Copying ==
    {"cleft", "cright", "cup", "cdown", "cupleft", "cupright", "cdownleft", "cdownright"}

\* the cell one step from q in the compass direction of the primitive
Neighbour(q, op) ==
    <<q[1] + (IF op \in {"mup", "mupleft", "mupright", "cup", "cupleft", "cupright"}
              THEN 0 - 1
              ELSE IF op \in {"mdown", "mdownleft", "mdownright",
                              "cdown", "cdownleft", "cdownright"}
                   THEN 1 ELSE 0),
      q[2] + (IF op \in {"mleft", "mupleft", "mdownleft", "cleft", "cupleft", "cdownleft"}
              THEN 0 - 1
              ELSE IF op \in {"mright", "mupright", "mdownright",
                              "cright", "cupright", "cdownright"}
                   THEN 1 ELSE 0)>>

\* C15: called on a pointer inside the grid, an in-place step primitive
\* returns true and moves the pointer to the neighbouring cell when that cell
\* is inside the grid, and returns false otherwise; a copying primitive
\* returns a copy on the neighbouring cell under the same condition and False
\* otherwise, and leaves the pointer where it was.
StepsStopAtTheEdge ==
    [][Inside(pointer) =>
        /\ result'.op \in InPlace =>
            /\ result'.ok = Inside(Neighbour(pointer, result'.op))
            /\ result'.ok => pointer' = Neighbour(pointer, result'.op)
        /\ result'.op \in Copying =>
            /\ result'.out.ok = Inside(Neighbour(pointer, result'.op))
            /\ result'.out.ok => result'.out.copy = Neighbour(pointer, result'.op)
            /\ pointer' = pointer]_vars

\* C16: when an in-place step primitive or advance() returns false, the row
\* and the column of the pointer are what they were before the call.
FailureLeavesPointer ==
    [][(result'.op \in InPlace \cup {"advance"} /\ ~result'.ok)
            => pointer' = pointer]_vars

\* a diagonal step failed on one axis while the other axis had room
FailureLeavesPointerWitness ==
    /\ result.op = "mdownright"
    /\ ~result.ok
    /\ pointer[1] + 1 < matrix.n_rows
    /\ pointer[1] >= 0
    /\ pointer[2] = matrix.n_cols - 1

Sign(x) == IF x < 0 THEN 0 - 1 ELSE IF x > 0 THEN 1 ELSE 0

\* the direction for the signs of the row and the column difference
Compass(dr, dc) ==
    IF dr < 0 THEN (IF dc < 0 THEN NORTHWEST ELSE IF dc > 0 THEN NORTHEAST ELSE NORTH)
    ELSE IF dr > 0
         THEN (IF dc < 0 THEN SOUTHWEST ELSE IF dc > 0 THEN SOUTHEAST ELSE SOUTH)
    ELSE (IF dc < 0 THEN WEST ELSE IF dc > 0 THEN EAST ELSE NoDirection)

\* C18: a.directionto(b) is the direction given by the signs of b.r - a.r
\* and b.c - a.c alone, NONE exactly when the coordinates are equal, and
\* a.directionfrom(b) is b.directionto(a).
DirectionBySigns ==
    [][/\ result'.op = "directionto" =>
            \A other \in Pointers :
                DirectionToOf(other) =>
                    /\ result'.out = Compass(Sign(other[1] - pointer[1]),
                                             Sign(other[2] - pointer[2]))
                    /\ result'.out = NoDirection <=> other = pointer
                    /\ result'.out \in Direction
       /\ result'.op = "directionfrom" =>
            \A other \in Pointers :
                DirectionFromOf(other) =>
                    /\ result'.out = directionto(other, pointer)
                    /\ result'.out = Compass(Sign(pointer[1] - other[1]),
                                             Sign(pointer[2] - other[2]))]_vars

DirectionBySignsWitness ==
    /\ result.op = "directionfrom"
    /\ result.out = NORTHWEST
    /\ Inside(pointer)

(***************************************************************************)
(* Walking a Matrix in row-major order.                                    *)
(***************************************************************************)
Size == matrix.n_rows * matrix.n_cols

\* the n-th cell (from 0) in row-major order
RowMajor(n) == <<n \div matrix.n_cols, n % matrix.n_cols>>

LastCell == <<matrix.n_rows - 1, matrix.n_cols - 1>>

\* C17: a pointer built at (0, 0) is, after k calls of advance(), on the k-th
\* cell in row-major order while k <= R*C - 1, all these calls having returned
\* true, and from the R*C-th call on advance() returns false and the pointer
\* stays on (R-1, C-1); an iterator or enumerator has yielded the cells in
\* row-major order, each enumerated pointer addressing the value yielded with
\* it, is at its end exactly when R*C items were yielded, and stops only then.
RowMajorWalk ==
    /\ result.op = "none" => pointer = <<0, 0>>
    /\ result.op = "advance" =>
        /\ result.calls <= Size - 1 => (result.ok /\ pointer = RowMajor(result.calls))
        /\ result.calls >= Size => (~result.ok /\ pointer = LastCell)
    /\ iter.started =>
        /\ Len(iter.items) <= Size
        /\ iter.end <=> Len(iter.items) = Size
        /\ iter.stopped => iter.end
        /\ ~iter.end => iter.ptr = RowMajor(Len(iter.items))
        /\ \A n \in 1..Len(iter.items) :
            /\ iter.items[n].value = matrix.cells[RowMajor(n - 1)]
            /\ iter.enumeration =>
                /\ iter.items[n].ptr = RowMajor(n - 1)
                /\ Matrix_getitem(matrix, iter.items[n].ptr[1], iter.items[n].ptr[2])
                        = [raised |-> FALSE, value |-> iter.items[n].value]

\* a grid of several rows and columns was enumerated to its end and asked for
\* more, and the pointer was advanced once more than it has cells
RowMajorWalkWitness ==
    /\ matrix.n_rows > 1
    /\ matrix.n_cols > 1
    /\ iter.started
    /\ iter.enumeration
    /\ iter.stopped
    /\ Len(iter.items) = Size
    /\ \E n \in 1..Size : iter.items[n].value # iter.items[1].value
    /\ result.op = "advance"
    /\ result.calls = Size + 1
    /\ ~result.ok

(***************************************************************************)
(* Element access with negative indices.                                   *)
(***************************************************************************)
\* the row or column that index i addresses among n, and whether it does
Addressed(i, n) == IF i < 0 THEN n + i ELSE i

Addressable(i, n) == (0 - n) <= i /\ i < n

AddressedCell(row, col) ==
    <<Addressed(row, matrix.n_rows), Addressed(col, matrix.n_cols)>>

\* C19: get and set with a row index i and a column index j address row i if
\* 0 <= i < R and row R + i if -R <= i < 0, likewise column j or C + j; any
\* other index raises IndexError and the matrix is unchanged; a get never
\* changes the matrix and a set changes the addressed cell only.
NegativeIndicesWrap ==
    [][/\ result'.op = "getitem" =>
            /\ matrix' = matrix
            /\ IF Addressable(result'.row, matrix.n_rows)
                    /\ Addressable(result'.col, matrix.n_cols)
               THEN result'.out =
                        [raised |-> FALSE,
                         value |-> matrix.cells[AddressedCell(result'.row, result'.col)]]
               ELSE result'.out.raised
       /\ result'.op = "setitem" =>
            IF Addressable(result'.row, matrix.n_rows)
                /\ Addressable(result'.col, matrix.n_cols)
            THEN /\ ~result'.raised
                 /\ \A cell \in Cells(matrix.n_rows, matrix.n_cols) :
                        cell # AddressedCell(result'.row, result'.col)
                            => matrix'.cells[cell] = matrix.cells[cell]
                 /\ \E value \in CellValues :
                        /\ PutItemAt(result'.row, result'.col, value)
                        /\ matrix'.cells[AddressedCell(result'.row, result'.col)] = value
                 /\ matrix'.n_rows = matrix.n_rows
                 /\ matrix'.n_cols = matrix.n_cols
            ELSE result'.raised /\ matrix' = matrix]_vars

\* m[-1, -1] was read after m[R-1, C-1] alone was written with 1
NegativeIndicesWrapWitness ==
    /\ matrix.n_rows > 1
    /\ matrix.n_cols > 1
    /\ result.op = "getitem"
    /\ result.row = 0 - 1
    /\ result.col = 0 - 1
    /\ result.out = [raised |-> FALSE, value |-> 1]
    /\ \A cell \in Cells(matrix.n_rows, matrix.n_cols) :
            matrix.cells[cell] = 1 <=> cell = LastCell

(***************************************************************************)
(* Inserting and appending rows and columns.                               *)
(***************************************************************************)
\* values fit a new row or column of n cells: none given, or n of them
Fits(values, n) == values.given => Len(values.values) = n

\* the value the new row or column gets in its j-th cell (from 0)
NewCell(values, j) == IF values.given THEN values.values[j + 1] ELSE matrix.default_value

\* matrix' is matrix with a row put in at k, holding values
RowPutIn(k, values) ==
    /\ matrix'.n_rows = matrix.n_rows + 1
    /\ matrix'.n_cols = matrix.n_cols
    /\ matrix'.default_value = matrix.default_value
    /\ DOMAIN matrix'.cells = Cells(matrix.n_rows + 1, matrix.n_cols)
    /\ \A c \in 0..(matrix.n_cols - 1) :
        /\ matrix'.cells[<<k, c>>] = NewCell(values, c)
        /\ \A r \in 0..(matrix.n_rows - 1) :
            /\ r < k => matrix'.cells[<<r, c>>] = matrix.cells[<<r, c>>]
            /\ r >= k => matrix'.cells[<<r + 1, c>>] = matrix.cells[<<r, c>>]

\* matrix' is matrix with a column put in at k, holding values
ColPutIn(k, values) ==
    /\ matrix'.n_cols = matrix.n_cols + 1
    /\ matrix'.n_rows = matrix.n_rows
    /\ matrix'.default_value = matrix.default_value
    /\ DOMAIN matrix'.cells = Cells(matrix.n_rows, matrix.n_cols + 1)
    /\ \A r \in 0..(matrix.n_rows - 1) :
        /\ matrix'.cells[<<r, k>>] = NewCell(values, r)
        /\ \A c \in 0..(matrix.n_cols - 1) :
            /\ c < k => matrix'.cells[<<r, c>>] = matrix.cells[<<r, c>>]
            /\ c >= k => matrix'.cells[<<r, c + 1>>] = matrix.cells[<<r, c>>]

\* C20: inserting a row at k in 0..R, or appending one (k = R), with C values
\* or none, raises nothing, makes the row count R + 1 and leaves the column
\* count; row k then holds the values supplied, or the current default in every
\* cell, rows before k are as they were and every former row i >= k is row
\* i + 1 with its values; the same holds of columns with rows and columns
\* exchanged.
InsertionsShift ==
    [][/\ result'.op = "insert_row" =>
            \A k \in 0..matrix.n_rows, values \in Supplied :
                (Fits(values, matrix.n_cols) /\ InsertRowAt(k, values))
                    => (~result'.raised /\ RowPutIn(k, values))
       /\ result'.op = "append_row" =>
            \A values \in Supplied :
                (Fits(values, matrix.n_cols) /\ AppendRowOf(values))
                    => (~result'.raised /\ RowPutIn(matrix.n_rows, values))
       /\ result'.op = "insert_col" =>
            \A k \in 0..matrix.n_cols, values \in Supplied :
                (Fits(values, matrix.n_rows) /\ InsertColAt(k, values))
                    => (~result'.raised /\ ColPutIn(k, values))
       /\ result'.op = "append_col" =>
            \A values \in Supplied :
                (Fits(values, matrix.n_rows) /\ AppendColOf(values))
                    => (~result'.raised /\ ColPutIn(matrix.n_cols, values))]_vars

\* the values of row r, left to right
RowOf(r) == [j \in 1..matrix.n_cols |-> matrix.cells[<<r, j - 1>>]]

\* the grid 2 / 3 got the column -1 -2 appended, then the row -1 -2 put in
\* at 1
InsertionsShiftWitness ==
    /\ result.op = "insert_row"
    /\ ~result.raised
    /\ matrix.n_rows = 3
    /\ matrix.n_cols = 2
    /\ RowOf(0) = <<2, 0 - 1>>
    /\ RowOf(1) = <<0 - 1, 0 - 2>>
    /\ RowOf(2) = <<3, 0 - 2>>

(***************************************************************************)
(* The shape of a Matrix: lengths of supplied sequences, the stored rows,  *)
(* the labels.                                                             *)
(***************************************************************************)
\* values are given and are not n of them
Misfit(values, n) == values.given /\ Len(values.values) # n

Shaping == {"setrow", "setcol", "insert_row", "append_row", "insert_col",
            "append_col", "row_labels", "col_labels"}

\* C21: setrow, setcol, insert_row, append_row, insert_col, append_col and the
\* assignment of row or column labels with a sequence that has not the
\* required length (C for rows and column labels, R for columns and row
\* labels) raise, and the object is then as before: its cells, n_rows, n_cols
\* and both label sequences.  Stated as: such a call that raises leaves the
\* object as it was, and such a call that does not raise was given no
\* sequence of another length.
WrongLengthIsRejected ==
    [][/\ (result'.op \in Shaping /\ result'.raised) => matrix' = matrix
       /\ (result'.op = "setrow" /\ ~result'.raised) =>
            \A row \in ShapeIndices, values \in SomeValues :
                Len(values) # matrix.n_cols => ~SetRowTo(row, values)
       /\ (result'.op = "setcol" /\ ~result'.raised) =>
            \A col \in ShapeIndices, values \in SomeValues :
                Len(values) # matrix.n_rows => ~SetColTo(col, values)
       /\ (result'.op = "insert_row" /\ ~result'.raised) =>
            \A row \in ShapeIndices, values \in MaybeValues :
                Misfit(values, matrix.n_cols) => ~PutRowAt(row, values)
       /\ (result'.op = "append_row" /\ ~result'.raised) =>
            \A values \in MaybeValues :
                Misfit(values, matrix.n_cols) => ~AddRowOf(values)
       /\ (result'.op = "insert_col" /\ ~result'.raised) =>
            \A col \in ShapeIndices, values \in MaybeValues :
                Misfit(values, matrix.n_rows) => ~PutColAt(col, values)
       /\ (result'.op = "append_col" /\ ~result'.raised) =>
            \A values \in MaybeValues :
                Misfit(values, matrix.n_rows) => ~AddColOf(values)
       /\ (result'.op = "row_labels" /\ ~result'.raised) =>
            \A labels \in SomeLabels :
                Misfit(labels, matrix.n_rows) => ~SetRowLabelsTo(labels)
       /\ (result'.op = "col_labels" /\ ~result'.raised) =>
            \A labels \in SomeLabels :
                Misfit(labels, matrix.n_cols) => ~SetColLabelsTo(labels)]_vars

\* row labels were refused by a labelled matrix of several rows that holds
\* written cells
WrongLengthIsRejectedWitness ==
    /\ result = [op |-> "row_labels", raised |-> TRUE]
    /\ matrix.n_rows > 1
    /\ matrix.row_labels.given
    /\ matrix.col_labels.given
    /\ \E r \in 1..matrix.n_rows, c \in 1..matrix.n_cols : matrix.data[r][c] = 1
    /\ \E r \in 1..matrix.n_rows, c \in 1..matrix.n_cols : matrix.data[r][c] = 0

\* exactly one stored value for every (r, c) with 0 <= r < R and 0 <= c < C
Rectangular(m) ==
    /\ m.n_rows >= 1
    /\ m.n_cols >= 1
    /\ DOMAIN m.data = 1..m.n_rows
    /\ \A r \in 1..m.n_rows : DOMAIN m.data[r] = 1..m.n_cols

\* C22: Matrix(rows, cols, ...) with rows < 1 or cols < 1 raises; a Matrix
\* that was constructed has rows rows and cols columns of the default value;
\* and in every state reached by cell, row and column writes and row and
\* column insertions, accepted or rejected, n_rows >= 1, n_cols >= 1 and the
\* stored rows are n_rows sequences of n_cols values each.
AlwaysRectangular ==
    /\ []Rectangular(matrix)
    /\ [][(result'.op = "Matrix" /\ ~result'.raised) =>
            /\ \A r \in 1..matrix'.n_rows, c \in 1..matrix'.n_cols :
                    matrix'.data[r][c] = matrix'.default_value
            /\ \A rows \in Sizes, cols \in Sizes, labels \in SomeLabels :
                NewOf(rows, cols, labels, labels) =>
                    /\ rows >= 1
                    /\ cols >= 1
                    /\ matrix'.n_rows = rows
                    /\ matrix'.n_cols = cols]_vars

\* a column of defaults was appended to a matrix of two rows that holds a
\* written cell
AlwaysRectangularWitness ==
    /\ result = [op |-> "append_col", raised |-> FALSE]
    /\ matrix.n_rows = 2
    /\ matrix.n_cols = 2
    /\ matrix.data = <<(<<1, 0>>), (<<0, 0>>)>>

\* C28: the row labels are absent or n_rows of them and the column labels
\* are absent or n_cols of them, in every state, and copy() raises nothing.
LabelsFitTheShape ==
    /\ matrix.row_labels.given => Len(matrix.row_labels.values) = matrix.n_rows
    /\ matrix.col_labels.given => Len(matrix.col_labels.values) = matrix.n_cols
    /\ result.op = "copy" => ~result.raised

(***************************************************************************)
(* Equality of a Matrix.                                                   *)
(***************************************************************************)
\* rows has the shape of the matrix / holds the values of the matrix
SameShape(rows) == Len(rows) = matrix.n_rows /\ Len(rows[1]) = matrix.n_cols

SameCells(rows) ==
    \A r \in 1..matrix.n_rows, c \in 1..matrix.n_cols : rows[r][c] = matrix.data[r][c]

\* C23: a Matrix compared with another Matrix of the same shape, or with a
\* sequence of sequences of the same shape, is equal to it exactly when every
\* cell of every row is equal, whatever the labels, cell width and default
\* value of the two.
EqualityComparesCells ==
    [][/\ result'.op = "eq" =>
            \A shape \in Shapes : \A rows \in RowsOf(shape[1], shape[2]) :
                (SameShape(rows) /\ EqWith(OtherMatrix(rows)))
                    => (result'.out <=> SameCells(rows))
       /\ result'.op = "eq_sequence" =>
            \A shape \in Shapes : \A rows \in RowsOf(shape[1], shape[2]) :
                (SameShape(rows) /\ EqSequenceWith(rows))
                    => (result'.out <=> SameCells(rows))]_vars

(***************************************************************************)
(* Writes into a schema.                                                   *)
(***************************************************************************)
Valid(value) == is_TargetSegment(value) \/ is_None(value)

AllValid(values) == \A j \in 1..Len(values) : Valid(values[j])

InRange(i, n) == (0 - n) <= i /\ i < n

\* C24: a write into a schema is accepted exactly when every value written
\* is a TargetSegment or None and, for a row or column, the sequence has the
\* schema's length (a row) or its number of forms (a column); a write that
\* raises leaves the schema as it was.  The indices are those of a cell, row
\* or column of the schema.
WritesAreValidated ==
    [][/\ result'.op \in {"setitem", "setitem_ptr", "setbase", "setform", "setcol"}
            => (result'.raised => matrix' = matrix)
       /\ result'.op = "setitem" =>
            \A row \in ShapeIndices, col \in ShapeIndices, value \in Written1 :
                (InRange(row, matrix.n_rows) /\ InRange(col, matrix.n_cols)
                    /\ SchemaSetItemTo(row, col, value))
                        => (~result'.raised <=> Valid(value))
       /\ result'.op = "setitem_ptr" =>
            \A ptr \in Cells(matrix.n_rows, matrix.n_cols), value \in Written1 :
                SchemaSetItemAt(ptr, value) => (~result'.raised <=> Valid(value))
       /\ result'.op = "setbase" =>
            \A form \in Forms :
                SetBaseTo(form) =>
                    (~result'.raised <=> (AllValid(form) /\ Len(form) = matrix.n_cols))
       /\ result'.op = "setform" =>
            \A index \in ShapeIndices, form \in Forms :
                (InRange(index, matrix.n_rows) /\ SetFormTo(index, form)) =>
                    (~result'.raised <=> (AllValid(form) /\ Len(form) = matrix.n_cols))
       /\ result'.op = "setcol" =>
            \A col \in ShapeIndices, values \in Forms :
                (InRange(col, matrix.n_cols) /\ SchemaSetColTo(col, values)) =>
                    (~result'.raised
                        <=> (AllValid(values) /\ Len(values) = matrix.n_rows))]_vars

\* C25: once the engine is done, a further step() or compute() leaves the
\* cost, backlink and tag grids, the cursor, the done flag, the distance and
\* the edit script as they were, raises nothing, and step() returns false.
DoneIsFinal ==
    [][ld.computed =>
          /\ ld'.dmatrix = ld.dmatrix
          /\ ld'.pmatrix = ld.pmatrix
          /\ ld'.ematrix = ld.ematrix
          /\ ld'.ptr = ld.ptr
          /\ ld'.computed
          /\ distance(ld') = distance(ld)
          /\ esequence(ld') = esequence(ld)
          /\ ~raised'
          /\ Step => ret' = FALSE]_vars

\* a done engine over two different symbols on which step() has returned
\* false, the cursor still on the last cell
DoneIsFinalWitness ==
    /\ ld.computed
    /\ ret = FALSE
    /\ ld.source = <<"a", "b">>
    /\ ld.target = <<"b">>
    /\ ld.ptr = <<2, 1>>
    /\ distance(ld) > 0

\* the cursor stands on an interior cell whose insertion and deletion
\* candidates are equal and strictly below the substitution candidate
NoMinimum(e) ==
    /\ e.ptr[1] > 0
    /\ e.ptr[2] > 0
    /\ InsOf(e, e.ptr) = DelOf(e, e.ptr)
    /\ InsOf(e, e.ptr) < SubOf(e, e.ptr)

\* C26: a step at an interior cell with insertion = deletion < substitution
\* raises; a step that raises leaves the three grids, the cursor and the done
\* flag as they were, and the distance stays unavailable.
TieRaises ==
    [][Step =>
          /\ NoMinimum(ld) => raised'
          /\ raised' =>
                /\ ld'.dmatrix = ld.dmatrix
                /\ ld'.pmatrix = ld.pmatrix
                /\ ld'.ematrix = ld.ematrix
                /\ ld'.ptr = ld.ptr
                /\ ~ld'.computed
                /\ distance(ld') = NoDistance]_vars

\* a step has raised on the tie at cell (1,1), which is still unassigned
TieRaisesWitness ==
    /\ raised
    /\ NoMinimum(ld)
    /\ ld.ptr = <<1, 1>>
    /\ ld.ematrix[<<1, 1>>] = DefaultEdit
    /\ ~ld.computed

\* the cells the engine has assigned, and the cells before the cursor in
\* row-major order
Assigned(e) ==
    {cell \in Cells(n_rows(e), n_cols(e)) : e.ematrix[cell] # DefaultEdit}

CellNumber(e, cell) == cell[1] * n_cols(e) + cell[2]

BeforeCursor(e) ==
    {cell \in Cells(n_rows(e), n_cols(e)) : CellNumber(e, cell) < CellNumber(e, e.ptr)}

FinalCell(e) == <<n_rows(e) - 1, n_cols(e) - 1>>

NeighboursOf(cell) ==
    {other \in {cleft(cell), cup(cell), cupleft(cell)} : other[1] >= 0 /\ other[2] >= 0}

\* what a step of an engine that is not done does when it returns
StepComputesTheCursorCell ==
    /\ Assigned(ld) = BeforeCursor(ld)
    /\ NeighboursOf(ld.ptr) \subseteq Assigned(ld)
    /\ Assigned(ld') = Assigned(ld) \cup {ld.ptr}
    /\ \A cell \in Cells(n_rows(ld), n_cols(ld)) \ {ld.ptr} :
          /\ ld'.dmatrix[cell] = ld.dmatrix[cell]
          /\ ld'.pmatrix[cell] = ld.pmatrix[cell]
          /\ ld'.ematrix[cell] = ld.ematrix[cell]
    /\ ret' = (ld.ptr # FinalCell(ld))
    /\ ld'.computed = (ld.ptr = FinalCell(ld))
    /\ distance(ld) = NoDistance

\* C27: every step() of an engine that is not done returns, having computed
\* exactly the cell under the cursor, which is the next cell in row-major
\* order and whose left, upper and upper-left neighbours are computed already;
\* it returns true on every cell but (m,n) and on (m,n) returns false and sets
\* the done flag; the distance is None until then.
StepsRunRowMajorToTheEnd ==
    [][(Step /\ ~ld.computed) => (~raised' /\ StepComputesTheCursorCell)]_vars

\* what the three grids and the direction grid dir hold at a non-origin cell
GridsAgreeAt(e, dir, cell) ==
    LET r == cell[1]
        c == cell[2]
        back == e.pmatrix[cell]
        tag == e.ematrix[cell]
    IN  /\ back \in {<<r, c - 1>>, <<r - 1, c>>, <<r - 1, c - 1>>}
        /\ back[1] >= 0 /\ back[2] >= 0
        /\ tag = INSERT <=> (back = <<r, c - 1>> /\ dir[cell] = WEST)
        /\ tag = DELETE <=> (back = <<r - 1, c>> /\ dir[cell] = NORTH)
        /\ tag \in {SUBSTITUTE, NONE}
              <=> (back = <<r - 1, c - 1>> /\ dir[cell] = NORTHWEST)
        /\ tag = NONE => e.source[r] = e.target[c]
        /\ tag # TRANSPOSE

\* C29: once the engine is done, reading the direction grid succeeds and
\* leaves the backlink grid (and the rest of the engine) as it was; at every
\* non-origin cell the backlink is the left, upper or upper-left neighbour,
\* the tag is INSERT exactly with backlink left and direction WEST, DELETE
\* exactly with backlink up and direction NORTH, SUBSTITUTE or NONE exactly
\* with backlink up-left and direction NORTHWEST, NONE only on equal symbols,
\* never TRANSPOSE; the origin has cost 0, itself as backlink, tag NONE and
\* direction NONE.
GridsAgree ==
    /\ []((ld.computed /\ result.op = "dirmatrix" /\ ~result.raised) =>
            /\ \A cell \in Cells(n_rows(ld), n_cols(ld)) \ {<<0, 0>>} :
                  GridsAgreeAt(ld, result.out, cell)
            /\ ld.dmatrix[<<0, 0>>] = 0
            /\ ld.pmatrix[<<0, 0>>] = <<0, 0>>
            /\ ld.ematrix[<<0, 0>>] = NONE
            /\ result.out[<<0, 0>>] = NoDirection)
    /\ [][ReadDirmatrix => (ld' = ld /\ (ld.computed => ~result'.raised))]_vars

\* the direction grid read off a done engine over two symbols each, holding
\* all three directions, one of its diagonal steps free
GridsAgreeWitness ==
    /\ ld.computed
    /\ result.op = "dirmatrix"
    /\ ~result.raised
    /\ Len(ld.source) = 2 /\ Len(ld.target) = 2
    /\ {WEST, NORTH, NORTHWEST} \subseteq
          {result.out[cell] : cell \in Cells(n_rows(ld), n_cols(ld))}
    /\ \E cell \in AssignedInterior(ld) : ld.ematrix[cell] = NONE
    /\ \E cell \in AssignedInterior(ld) : ld.ematrix[cell] = SUBSTITUTE

\* the entries of a sequence that are not the value given
Others(entries, value) == {k \in 1..Len(entries) : entries[k] # value}

\* C30: for every m >= 0 and n >= 0, the sequences read off a done engine
\* come from a walk of at most m + n backlinks; the edit script has exactly m
\* entries that are not INSERT and exactly n that are not DELETE, and the
\* cost, backlink and direction sequences are as long as the edit script.
WalkIsACompleteAlignment ==
    (result.op = "sequences" /\ result.esequence.given) =>
        /\ Len(result.esequence.values) <= Len(ld.source) + Len(ld.target)
        /\ Cardinality(Others(result.esequence.values, INSERT)) = Len(ld.source)
        /\ Cardinality(Others(result.esequence.values, DELETE)) = Len(ld.target)
        /\ Len(result.dsequence.values) = Len(result.esequence.values)
        /\ Len(result.psequence.values) = Len(result.esequence.values)
        /\ Len(result.dirsequence.values) = Len(result.esequence.values)

\* the fixture read with s[6, 2] and s[7, 2] holding the same target
LiteralFixtureCompilation ==
    (schema = Fixture("??") /\ CompiledToList) => Len(data) = 20

====
